---- MODULE Spec2Model ----
(***************************************************************************)
(* Pipeline optimizer: request -> validate_request -> build_lp -> Solve    *)
(* -> extract_solution -> SolveResult.                                     *)
(*                                                                         *)
(* Conventions of the model                                                *)
(*  - Optional[X] is a sequence of length <= 1: <<>> is None, <<x>> is x.  *)
(*  - A Python dict is a sequence of <<key, value>> pairs with unique      *)
(*    keys, in insertion order.                                            *)
(*  - A float is an integer count of ticks of 2^-24 (about 5.96e-8), a     *)
(*    scale on which float sums and differences are exact.  A tolerance    *)
(*    that is no whole number of ticks stands as the whole number below    *)
(*    it, which compares alike with every whole count: 1e-7 (1.68 ticks)   *)
(*    is 1 and 1e-6 (16.78 ticks) is 16.                                   *)
(*  - An error message is the sequence of the fragments of its f-string;   *)
(*    the message is their concatenation.                                  *)
(***************************************************************************)
EXTENDS Integers, Sequences, FiniteSets, TLC

VARIABLES req, entry, eps_arg, pc, exc, built, status_code, sol, result, calls, http, bfs

vars == <<req, entry, eps_arg, pc, exc, built, status_code, sol, result, calls, http, bfs>>

----------------------------------------------------------------------------
(* Generic helpers: Optional, lists, dicts                                 *)

None == <<>>

Some(x) == <<x>>

Range(s) == {s[i] : i \in 1..Len(s)}

RECURSIVE SumSeq(_)
SumSeq(s) == IF s = <<>> THEN 0 ELSE Head(s) + SumSeq(Tail(s))

RECURSIVE MapIds(_)
MapIds(s) == IF s = <<>> THEN <<>> ELSE <<Head(s).id>> \o MapIds(Tail(s))

RECURSIVE MapCommodity(_)
MapCommodity(s) == IF s = <<>> THEN <<>> ELSE <<Head(s).commodity>> \o MapCommodity(Tail(s))

DictKeys(d) == {d[i][1] : i \in 1..Len(d)}

DictHas(d, k) == k \in DictKeys(d)

DictGet(d, k, default) ==
    IF DictHas(d, k) THEN d[CHOOSE i \in 1..Len(d) : d[i][1] = k][2] ELSE default

DictSet(d, k, v) ==
    IF DictHas(d, k)
    THEN [i \in 1..Len(d) |-> IF d[i][1] = k THEN <<k, v>> ELSE d[i]]
    ELSE Append(d, <<k, v>>)

\* {n.id: n for n in nodes}: a later node replaces an earlier one of the same id
RECURSIVE NodesById(_)
NodesById(nodes) ==
    IF nodes = <<>> THEN <<>>
    ELSE LET front == SubSeq(nodes, 1, Len(nodes) - 1)
             last == nodes[Len(nodes)]
         IN DictSet(NodesById(front), last.id, last)

\* Python's order on the commodity strings the model uses
CommodityOrder == <<"a", "b">>

RECURSIVE SortedFrom(_, _)
SortedFrom(order, S) ==
    IF order = <<>> THEN <<>>
    ELSE (IF Head(order) \in S THEN <<Head(order)>> ELSE <<>>) \o SortedFrom(Tail(order), S)

sorted(S) == SortedFrom(CommodityOrder, S)

RECURSIVE ReprItems(_)
ReprItems(s) ==
    IF s = <<>> THEN ""
    ELSE IF Len(s) = 1 THEN "'" \o s[1] \o "'"
    ELSE "'" \o s[1] \o "', " \o ReprItems(Tail(s))

\* repr of a Python list of strings
PyListRepr(s) == "[" \o ReprItems(s) \o "]"

----------------------------------------------------------------------------
(* app/core/errors.py and exceptions                                       *)

NoExc == <<>>

DomainError(reason) == <<[exc |-> "DomainError", reason |-> reason]>>

RuntimeError(reason) == <<[exc |-> "RuntimeError", reason |-> reason]>>

----------------------------------------------------------------------------
(* app/domain/validate.py                                                  *)

_validate_node_shape(n) ==
    IF n.type = "source" /\ n.source = None
    THEN DomainError(<<"Source node '", n.id, "' must include 'source' spec.">>)
    ELSE IF n.type = "sink" /\ n.sink = None
    THEN DomainError(<<"Sink node '", n.id, "' must include 'sink' spec.">>)
    ELSE IF n.type = "process" /\ n.process = None
    THEN DomainError(<<"Process node '", n.id, "' must include 'process' spec.">>)
    ELSE NoExc

\* a plausible slip: k >= 1 instead of k > 1 lists every commodity of the list
DupCommodities_AllListed(comms) == Range(comms)

\* the commodities that occur more than once in comms
DupCommodities(comms) ==
    {c \in Range(comms) : Cardinality({i \in 1..Len(comms) : comms[i] = c}) > 1}

_validate_unique_io_commodities(node_id, field, comms) ==
    IF Cardinality(Range(comms)) = Len(comms) THEN NoExc
    ELSE DomainError(<<"Process node '", node_id, "' has duplicate commodities in process.",
                       field, ": ", PyListRepr(sorted(DupCommodities(comms))),
                       ". Use a single entry per commodity.">>)

_validate_process_node(n) ==
    LET p == n.process[1] IN
    IF p.inputs = <<>>
    THEN DomainError(<<"Process node '", n.id, "' must have at least one input.">>)
    ELSE IF p.outputs = <<>>
    THEN DomainError(<<"Process node '", n.id, "' must have at least one output.">>)
    ELSE LET r == _validate_unique_io_commodities(n.id, "inputs", MapCommodity(p.inputs)) IN
         IF r # NoExc THEN r
         ELSE _validate_unique_io_commodities(n.id, "outputs", MapCommodity(p.outputs))

_edge_references_valid_node(e, nodes_by_id) ==
    IF ~DictHas(nodes_by_id, e.u)
    THEN DomainError(<<"Edge '", e.id, "' references missing node u='", e.u, "'.">>)
    ELSE IF ~DictHas(nodes_by_id, e.v)
    THEN DomainError(<<"Edge '", e.id, "' references missing node v='", e.v, "'.">>)
    ELSE IF e.u = e.v
    THEN DomainError(<<"Edge '", e.id, "' has self-loop '", e.u, "'. Not supported.">>)
    ELSE NoExc

_edge_direction_is_correct(e, nodes_by_id) ==
    LET node_u == DictGet(nodes_by_id, e.u, None)
        node_v == DictGet(nodes_by_id, e.v, None)
    IN IF node_u.type = "sink"
       THEN DomainError(<<"Edge '", e.id, "' cannot originate from sink node '", node_u.id, "'.">>)
       ELSE IF node_v.type = "source"
       THEN DomainError(<<"Edge '", e.id, "' cannot point into source node '", node_v.id, "'.">>)
       ELSE NoExc

_produced_commodities(n) ==
    IF n.type = "source"
    THEN (IF n.source # None THEN {n.source[1].commodity} ELSE {})
    ELSE IF n.type = "process"
    THEN (IF n.process # None THEN Range(MapCommodity(n.process[1].outputs)) ELSE {})
    ELSE {}

\* a plausible slip: a process is taken to accept what it outputs
_accepted_commodities_FromOutputs(n) ==
    IF n.type = "sink"
    THEN (IF n.sink # None THEN {n.sink[1].commodity} ELSE {})
    ELSE IF n.type = "process"
    THEN (IF n.process # None THEN Range(MapCommodity(n.process[1].outputs)) ELSE {})
    ELSE {}

_accepted_commodities(n) ==
    IF n.type = "sink"
    THEN (IF n.sink # None THEN {n.sink[1].commodity} ELSE {})
    ELSE IF n.type = "process"
    THEN (IF n.process # None THEN Range(MapCommodity(n.process[1].inputs)) ELSE {})
    ELSE {}

\* the one-character string holding the empty-set sign, code point U+2205, written by
\* its code point because a module is plain ASCII text
EMPTY_SET_SIGN == "U+2205"

\* sorted(xs) if xs else the empty-set sign
ReprOrEmpty(S) == IF S # {} THEN PyListRepr(sorted(S)) ELSE EMPTY_SET_SIGN

_edge_commodity_is_produced_by_u(e, u) ==
    LET produced == _produced_commodities(u) IN
    IF e.commodity \notin produced
    THEN DomainError(<<"Edge '", e.id, "' carries '", e.commodity, "', but node '", u.id,
                       "' (type=", u.type, ") does not produce it. Produces: ",
                       ReprOrEmpty(produced)>>)
    ELSE NoExc

_edge_commodity_is_accepted_by_v(e, v) ==
    LET accepted == _accepted_commodities(v) IN
    IF e.commodity \notin accepted
    THEN DomainError(<<"Edge '", e.id, "' carries '", e.commodity, "', but node '", v.id,
                       "' (type=", v.type, ") does not accept it. Accepts: ",
                       ReprOrEmpty(accepted)>>)
    ELSE NoExc

\* a plausible slip: radj[e.commodity][e.u].append(e.v), the adjacency of the forward direction
RECURSIVE Radj_Forward(_, _, _)
Radj_Forward(edges, comm, v) ==
    IF edges = <<>> THEN <<>>
    ELSE (IF Head(edges).commodity = comm /\ Head(edges).u = v THEN <<Head(edges).v>> ELSE <<>>)
         \o Radj_Forward(Tail(edges), comm, v)

\* radj[comm][v]: the u of every edge of that commodity into v, in edge order
RECURSIVE Radj(_, _, _)
Radj(edges, comm, v) ==
    IF edges = <<>> THEN <<>>
    ELSE (IF Head(edges).commodity = comm /\ Head(edges).v = v THEN <<Head(edges).u>> ELSE <<>>)
         \o Radj(Tail(edges), comm, v)

\* producers_by_comm[comm]
ProducersByComm(nodes, comm) ==
    {nodes[i].id : i \in {j \in 1..Len(nodes) :
        \/ nodes[j].type = "source" /\ nodes[j].source # None
           /\ nodes[j].source[1].commodity = comm
        \/ nodes[j].type = "process" /\ nodes[j].process # None
           /\ comm \in Range(MapCommodity(nodes[j].process[1].outputs))}}

\* a plausible slip: a break after the first unseen predecessor
RECURSIVE EnqueueUnseen_FirstOnly(_, _, _)
EnqueueUnseen_FirstOnly(us, q, seen) ==
    IF us = <<>> THEN <<q, seen>>
    ELSE IF Head(us) \notin seen
         THEN <<Append(q, Head(us)), seen \cup {Head(us)}>>
         ELSE EnqueueUnseen_FirstOnly(Tail(us), q, seen)

\* the inner for loop of the traversal: enqueue the unseen predecessors of v
RECURSIVE EnqueueUnseen(_, _, _)
EnqueueUnseen(us, q, seen) ==
    IF us = <<>> THEN <<q, seen>>
    ELSE IF Head(us) \notin seen
         THEN EnqueueUnseen(Tail(us), Append(q, Head(us)), seen \cup {Head(us)})
         ELSE EnqueueUnseen(Tail(us), q, seen)

RECURSIVE BfsLoop(_, _, _, _, _)
BfsLoop(edges, comm, producers, q, seen) ==
    IF q = <<>> THEN FALSE
    ELSE LET v == Head(q) IN
         IF v \in producers THEN TRUE
         ELSE LET nxt == EnqueueUnseen(Radj(edges, comm, v), Tail(q), seen)
              IN BfsLoop(edges, comm, producers, nxt[1], nxt[2])

\* radj_comm is given by the edge list and the commodity it is restricted to
_reverse_reachable_from_any_producer(edges, comm, producers, sink_id) ==
    BfsLoop(edges, comm, producers, <<sink_id>>, {sink_id})

\* a plausible slip: a strict comparison, so that a sink of demand 0 is checked too
DemandIsZero_Strict(demand_cap) == demand_cap < 0

\* if n.sink.demand_cap <= 0: continue
DemandIsZero(demand_cap) == demand_cap <= 0

RECURSIVE SinkReachabilityFrom(_, _)
SinkReachabilityFrom(r, i) ==
    IF i > Len(r.nodes) THEN NoExc
    ELSE LET n == r.nodes[i] IN
         IF n.type # "sink" \/ n.sink = None THEN SinkReachabilityFrom(r, i + 1)
         ELSE LET comm == n.sink[1].commodity
                  producers == ProducersByComm(r.nodes, comm)
              IN IF DemandIsZero(n.sink[1].demand_cap) THEN SinkReachabilityFrom(r, i + 1)
                 ELSE IF producers = {}
                 THEN DomainError(<<"Sink '", n.id, "' demands '", comm,
                                    "', but no node produces '", comm, "'.">>)
                 ELSE IF ~_reverse_reachable_from_any_producer(r.edges, comm, producers, n.id)
                 THEN DomainError(<<"Sink '", n.id, "' demands '", comm,
                                    "', but no producer of '", comm,
                                    "' can reach it via edges carrying '", comm, "'.">>)
                 ELSE SinkReachabilityFrom(r, i + 1)

_validate_sink_reachability(r) == SinkReachabilityFrom(r, 1)

\* for n in req.nodes: shape, then the process checks of the same node
RECURSIVE ValidateNodesFrom(_, _)
ValidateNodesFrom(nodes, i) ==
    IF i > Len(nodes) THEN NoExc
    ELSE LET n == nodes[i]
             shape == _validate_node_shape(n)
         IN IF shape # NoExc THEN shape
            ELSE LET proc == IF n.type = "process" THEN _validate_process_node(n) ELSE NoExc
                 IN IF proc # NoExc THEN proc ELSE ValidateNodesFrom(nodes, i + 1)

ValidateEdge(e, nodes_by_id) ==
    LET refs == _edge_references_valid_node(e, nodes_by_id) IN
    IF refs # NoExc THEN refs
    ELSE LET dir == _edge_direction_is_correct(e, nodes_by_id) IN
         IF dir # NoExc THEN dir
         ELSE LET u == DictGet(nodes_by_id, e.u, None)
                  v == DictGet(nodes_by_id, e.v, None)
                  prod == _edge_commodity_is_produced_by_u(e, u)
              IN IF prod # NoExc THEN prod
                 ELSE _edge_commodity_is_accepted_by_v(e, v)

RECURSIVE ValidateEdgesFrom(_, _, _)
ValidateEdgesFrom(edges, nodes_by_id, i) ==
    IF i > Len(edges) THEN NoExc
    ELSE LET r == ValidateEdge(edges[i], nodes_by_id) IN
         IF r # NoExc THEN r ELSE ValidateEdgesFrom(edges, nodes_by_id, i + 1)

\* the enum that validate.py imports from the schema; its members are strings, as those
\* of SolveMode, SolveStatus and NodeType are, and name the kinds of the objective
ObjectiveKind == [MAX_PROFIT |-> "max_profit", MAX_FLOW_TO_SINK |-> "max_flow_to_sink"]

\* a plausible slip: the two objective kinds of the schema are both let through
ValidateObjective_AcceptsMaxFlow(obj) ==
    IF obj.kind \notin {"max_profit", "max_flow_to_sink"}
    THEN DomainError(<<"Objective '", obj.kind, "' is not yet implemented.">>)
    ELSE NoExc

ValidateObjective(obj) ==
    IF obj.kind # ObjectiveKind.MAX_PROFIT
    THEN DomainError(<<"Objective '", obj.kind, "' is not yet implemented.">>)
    ELSE NoExc

\* a plausible slip: the comparison points the wrong way and never holds
HasDuplicates_WrongComparison(ids) == Cardinality(Range(ids)) > Len(ids)

\* len(set(ids)) != len(ids)
HasDuplicates(ids) == Cardinality(Range(ids)) # Len(ids)

validate_request(r) ==
    LET node_ids == MapIds(r.nodes)
        edge_ids == MapIds(r.edges)
    IN IF HasDuplicates(node_ids)
       THEN DomainError(<<"Duplicate node IDs found.">>)
       ELSE IF HasDuplicates(edge_ids)
       THEN DomainError(<<"Duplicate edge IDs found.">>)
       ELSE LET nodes_by_id == NodesById(r.nodes)
                ns == ValidateNodesFrom(r.nodes, 1)
            IN IF ns # NoExc THEN ns
               ELSE LET es == ValidateEdgesFrom(r.edges, nodes_by_id, 1) IN
                    IF es # NoExc THEN es
                    ELSE LET ob == ValidateObjective(r.options.objective) IN
                         IF ob # NoExc THEN ob
                         ELSE _validate_sink_reachability(r)

----------------------------------------------------------------------------
(* app/solvers/lp/build.py                                                 *)
(* A solver variable is <<"f", edge id>> or <<"r", node id>>.  A linear    *)
(* expression is a sequence of terms <<coefficient, variable>>; the float  *)
(* 0.0 that stands for an empty sum is the empty sequence.                 *)

FVar(eid) == <<"f", eid>>

RVar(nid) == <<"r", nid>>

\* f_edge[e.id] = s.NumVar(...) for e in spec.edges
RECURSIVE FEdgeKeys(_)
FEdgeKeys(edges) ==
    IF edges = <<>> THEN <<>>
    ELSE LET front == FEdgeKeys(SubSeq(edges, 1, Len(edges) - 1))
             last == edges[Len(edges)]
         IN IF last.id \in Range(front) THEN front ELSE Append(front, last.id)

\* r_proc[n.id] = s.NumVar(...) for the nodes of type process
RECURSIVE RProcKeys(_)
RProcKeys(nodes) ==
    IF nodes = <<>> THEN <<>>
    ELSE LET front == RProcKeys(SubSeq(nodes, 1, Len(nodes) - 1))
             last == nodes[Len(nodes)]
         IN IF last.type = "process" /\ last.id \notin Range(front)
            THEN Append(front, last.id) ELSE front

\* edges_by_u_comm[(e.u, e.commodity)].append(e.id)
RECURSIVE EdgesByUComm(_)
EdgesByUComm(edges) ==
    IF edges = <<>> THEN <<>>
    ELSE LET d == EdgesByUComm(SubSeq(edges, 1, Len(edges) - 1))
             e == edges[Len(edges)]
             k == <<e.u, e.commodity>>
         IN DictSet(d, k, Append(DictGet(d, k, <<>>), e.id))

\* edges_by_v_comm[(e.v, e.commodity)].append(e.id)
RECURSIVE EdgesByVComm(_)
EdgesByVComm(edges) ==
    IF edges = <<>> THEN <<>>
    ELSE LET d == EdgesByVComm(SubSeq(edges, 1, Len(edges) - 1))
             e == edges[Len(edges)]
             k == <<e.v, e.commodity>>
         IN DictSet(d, k, Append(DictGet(d, k, <<>>), e.id))

NodeCommodities(n) ==
    (IF n.type = "source" /\ n.source # None THEN {n.source[1].commodity} ELSE {})
    \cup (IF n.type = "sink" /\ n.sink # None THEN {n.sink[1].commodity} ELSE {})
    \cup (IF n.type = "process" /\ n.process # None
          THEN Range(MapCommodity(n.process[1].inputs))
               \cup Range(MapCommodity(n.process[1].outputs))
          ELSE {})

\* the set `commodities`: from the edges and from the node payloads
CommoditiesOf(r) ==
    Range(MapCommodity(r.edges)) \cup UNION {NodeCommodities(r.nodes[i]) : i \in 1..Len(r.nodes)}

\* the orders in which iterating the set `commodities` can yield its elements
IterationOrders(S) ==
    {o \in [1..Cardinality(S) -> S] : \A c \in S : \E i \in 1..Cardinality(S) : o[i] = c}

\* sum(f_edge[eid] for eid in ids) if ids else 0.0
RECURSIVE FlowSum(_, _)
FlowSum(ids, coef) ==
    IF ids = <<>> THEN <<>> ELSE <<<<coef, FVar(Head(ids))>>>> \o FlowSum(Tail(ids), coef)

RECURSIVE ScaleExpr(_, _)
ScaleExpr(k, expr) ==
    IF expr = <<>> THEN <<>>
    ELSE <<<<k * Head(expr)[1], Head(expr)[2]>>>> \o ScaleExpr(k, Tail(expr))

Constraint(name, terms, sense, bound) ==
    [name |-> name, terms |-> terms, sense |-> sense, bound |-> bound]

\* a plausible slip: `if e.cap:` guards the entry of edge_caps, a cap of 0.0 is not stored
RECURSIVE EdgeCaps_TruthyCap(_)
EdgeCaps_TruthyCap(edges) ==
    IF edges = <<>> THEN <<>>
    ELSE LET d == EdgeCaps_TruthyCap(SubSeq(edges, 1, Len(edges) - 1))
             e == edges[Len(edges)]
         IN IF e.cap # None /\ e.cap[1] # 0 THEN DictSet(d, e.id, e.cap[1]) ELSE d

\* edge_caps and the cap_edge constraints
RECURSIVE EdgeCaps(_)
EdgeCaps(edges) ==
    IF edges = <<>> THEN <<>>
    ELSE LET d == EdgeCaps(SubSeq(edges, 1, Len(edges) - 1))
             e == edges[Len(edges)]
         IN IF e.cap # None THEN DictSet(d, e.id, e.cap[1]) ELSE d

\* a plausible slip: `if e.cap:` instead of `if e.cap is not None:`, a cap of 0.0 is skipped
RECURSIVE EdgeCapConstraints_TruthyCap(_)
EdgeCapConstraints_TruthyCap(edges) ==
    IF edges = <<>> THEN <<>>
    ELSE LET e == Head(edges) IN
         (IF e.cap # None /\ e.cap[1] # 0
          THEN <<Constraint("cap_edge[" \o e.id \o "]", <<<<1, FVar(e.id)>>>>, "<=", e.cap[1])>>
          ELSE <<>>)
         \o EdgeCapConstraints_TruthyCap(Tail(edges))

RECURSIVE EdgeCapConstraints(_)
EdgeCapConstraints(edges) ==
    IF edges = <<>> THEN <<>>
    ELSE LET e == Head(edges) IN
         (IF e.cap # None
          THEN <<Constraint("cap_edge[" \o e.id \o "]", <<<<1, FVar(e.id)>>>>, "<=", e.cap[1])>>
          ELSE <<>>)
         \o EdgeCapConstraints(Tail(edges))

\* source_supply_caps, source_outflow_expr and the supply constraints
RECURSIVE SourceSupplyCaps(_)
SourceSupplyCaps(nodes) ==
    IF nodes = <<>> THEN <<>>
    ELSE LET d == SourceSupplyCaps(SubSeq(nodes, 1, Len(nodes) - 1))
             n == nodes[Len(nodes)]
         IN IF n.type # "source" \/ n.source = None THEN d
            ELSE DictSet(d, n.id, n.source[1].supply_cap)

RECURSIVE SourceOutflowExpr(_, _)
SourceOutflowExpr(nodes, by_u) ==
    IF nodes = <<>> THEN <<>>
    ELSE LET d == SourceOutflowExpr(SubSeq(nodes, 1, Len(nodes) - 1), by_u)
             n == nodes[Len(nodes)]
         IN IF n.type # "source" \/ n.source = None THEN d
            ELSE DictSet(d, n.id, FlowSum(DictGet(by_u, <<n.id, n.source[1].commodity>>, <<>>), 1))

\* a plausible slip: the supply is stated as an equality, so the source must be used up
RECURSIVE SupplyConstraints_Equality(_, _)
SupplyConstraints_Equality(nodes, by_u) ==
    IF nodes = <<>> THEN <<>>
    ELSE LET n == Head(nodes) IN
         (IF n.type # "source" \/ n.source = None THEN <<>>
          ELSE <<Constraint("supply[" \o n.id \o "]",
                            FlowSum(DictGet(by_u, <<n.id, n.source[1].commodity>>, <<>>), 1),
                            "==", n.source[1].supply_cap)>>)
         \o SupplyConstraints_Equality(Tail(nodes), by_u)

RECURSIVE SupplyConstraints(_, _)
SupplyConstraints(nodes, by_u) ==
    IF nodes = <<>> THEN <<>>
    ELSE LET n == Head(nodes) IN
         (IF n.type # "source" \/ n.source = None THEN <<>>
          ELSE <<Constraint("supply[" \o n.id \o "]",
                            FlowSum(DictGet(by_u, <<n.id, n.source[1].commodity>>, <<>>), 1),
                            "<=", n.source[1].supply_cap)>>)
         \o SupplyConstraints(Tail(nodes), by_u)

\* sink_demand_caps, sink_delivered_expr and the demand constraints
RECURSIVE SinkDemandCaps(_)
SinkDemandCaps(nodes) ==
    IF nodes = <<>> THEN <<>>
    ELSE LET d == SinkDemandCaps(SubSeq(nodes, 1, Len(nodes) - 1))
             n == nodes[Len(nodes)]
         IN IF n.type # "sink" \/ n.sink = None THEN d
            ELSE DictSet(d, n.id, n.sink[1].demand_cap)

RECURSIVE SinkDeliveredExpr(_, _)
SinkDeliveredExpr(nodes, by_v) ==
    IF nodes = <<>> THEN <<>>
    ELSE LET d == SinkDeliveredExpr(SubSeq(nodes, 1, Len(nodes) - 1), by_v)
             n == nodes[Len(nodes)]
         IN IF n.type # "sink" \/ n.sink = None THEN d
            ELSE DictSet(d, n.id, FlowSum(DictGet(by_v, <<n.id, n.sink[1].commodity>>, <<>>), 1))

\* a plausible slip: the test on the node type points the wrong way, no sink gets its constraint
RECURSIVE DemandConstraints_SkipsSinks(_, _)
DemandConstraints_SkipsSinks(nodes, by_v) ==
    IF nodes = <<>> THEN <<>>
    ELSE LET n == Head(nodes) IN
         (IF n.type = "sink" \/ n.sink = None THEN <<>>
          ELSE <<Constraint("demand[" \o n.id \o "]",
                            FlowSum(DictGet(by_v, <<n.id, n.sink[1].commodity>>, <<>>), 1),
                            "<=", n.sink[1].demand_cap)>>)
         \o DemandConstraints_SkipsSinks(Tail(nodes), by_v)

RECURSIVE DemandConstraints(_, _)
DemandConstraints(nodes, by_v) ==
    IF nodes = <<>> THEN <<>>
    ELSE LET n == Head(nodes) IN
         (IF n.type # "sink" \/ n.sink = None THEN <<>>
          ELSE <<Constraint("demand[" \o n.id \o "]",
                            FlowSum(DictGet(by_v, <<n.id, n.sink[1].commodity>>, <<>>), 1),
                            "<=", n.sink[1].demand_cap)>>)
         \o DemandConstraints(Tail(nodes), by_v)

\* proc_run_caps and the run_cap constraints
RECURSIVE ProcRunCaps(_)
ProcRunCaps(nodes) ==
    IF nodes = <<>> THEN <<>>
    ELSE LET d == ProcRunCaps(SubSeq(nodes, 1, Len(nodes) - 1))
             n == nodes[Len(nodes)]
         IN IF n.type = "process" /\ n.process # None /\ n.process[1].run_cap # None
            THEN DictSet(d, n.id, n.process[1].run_cap[1]) ELSE d

RECURSIVE RunCapConstraints(_)
RunCapConstraints(nodes) ==
    IF nodes = <<>> THEN <<>>
    ELSE LET n == Head(nodes) IN
         (IF n.type = "process" /\ n.process # None /\ n.process[1].run_cap # None
          THEN <<Constraint("run_cap[" \o n.id \o "]", <<<<1, RVar(n.id)>>>>, "<=",
                            n.process[1].run_cap[1])>>
          ELSE <<>>)
         \o RunCapConstraints(Tail(nodes))

\* a plausible slip: the branch for the sinks is missing
RECURSIVE TopologyForNode_SourcesOnly(_, _, _, _)
TopologyForNode_SourcesOnly(n, corder, by_u, by_v) ==
    IF corder = <<>> THEN <<>>
    ELSE LET c == Head(corder)
             in_ids == DictGet(by_v, <<n.id, c>>, <<>>)
         IN (IF n.type = "source" /\ in_ids # <<>>
             THEN <<Constraint("no_in_to_source[" \o n.id \o "," \o c \o "]",
                               FlowSum(in_ids, 1), "==", 0)>>
             ELSE <<>>)
            \o TopologyForNode_SourcesOnly(n, Tail(corder), by_u, by_v)

\* (safety) no inflow to sources, no outflow from sinks: inner loop over c
RECURSIVE TopologyForNode(_, _, _, _)
TopologyForNode(n, corder, by_u, by_v) ==
    IF corder = <<>> THEN <<>>
    ELSE LET c == Head(corder)
             out_ids == DictGet(by_u, <<n.id, c>>, <<>>)
             in_ids == DictGet(by_v, <<n.id, c>>, <<>>)
         IN (IF n.type = "source" /\ in_ids # <<>>
             THEN <<Constraint("no_in_to_source[" \o n.id \o "," \o c \o "]",
                               FlowSum(in_ids, 1), "==", 0)>>
             ELSE IF n.type = "sink" /\ out_ids # <<>>
             THEN <<Constraint("no_out_from_sink[" \o n.id \o "," \o c \o "]",
                               FlowSum(out_ids, 1), "==", 0)>>
             ELSE <<>>)
            \o TopologyForNode(n, Tail(corder), by_u, by_v)

RECURSIVE TopologyConstraints(_, _, _, _)
TopologyConstraints(nodes, corder, by_u, by_v) ==
    IF nodes = <<>> THEN <<>>
    ELSE TopologyForNode(Head(nodes), corder, by_u, by_v)
         \o TopologyConstraints(Tail(nodes), corder, by_u, by_v)

\* a plausible slip: the filter on the commodity is left out
RECURSIVE QtyOf_IgnoresCommodity(_, _)
QtyOf_IgnoresCommodity(ios, c) ==
    IF ios = <<>> THEN 0 ELSE Head(ios).qty + QtyOf_IgnoresCommodity(Tail(ios), c)

\* sum(io.qty for io in ios if io.commodity == c)
RECURSIVE QtyOf(_, _)
QtyOf(ios, c) ==
    IF ios = <<>> THEN 0
    ELSE (IF Head(ios).commodity = c THEN Head(ios).qty ELSE 0) + QtyOf(Tail(ios), c)

\* a plausible slip: the equation is added only for a commodity with edges at the node
RECURSIVE ConservationForNode_OnlyWithEdges(_, _, _, _)
ConservationForNode_OnlyWithEdges(n, corder, by_u, by_v) ==
    IF corder = <<>> THEN <<>>
    ELSE LET c == Head(corder)
             out_ids == DictGet(by_u, <<n.id, c>>, <<>>)
             in_ids == DictGet(by_v, <<n.id, c>>, <<>>)
         IN (IF n.type = "process" /\ n.process # None /\ (out_ids # <<>> \/ in_ids # <<>>)
             THEN LET produced == QtyOf(n.process[1].outputs, c)
                      consumed == QtyOf(n.process[1].inputs, c)
                  IN <<Constraint("cons[" \o n.id \o "," \o c \o "]",
                                  FlowSum(out_ids, 1) \o FlowSum(in_ids, -1)
                                    \o <<<<-(produced - consumed), RVar(n.id)>>>>,
                                  "==", 0)>>
             ELSE <<>>)
            \o ConservationForNode_OnlyWithEdges(n, Tail(corder), by_u, by_v)

\* out - in = r * (produced - consumed), as out - in - (produced - consumed) r = 0
RECURSIVE ConservationForNode(_, _, _, _)
ConservationForNode(n, corder, by_u, by_v) ==
    IF corder = <<>> THEN <<>>
    ELSE LET c == Head(corder)
             out_ids == DictGet(by_u, <<n.id, c>>, <<>>)
             in_ids == DictGet(by_v, <<n.id, c>>, <<>>)
         IN (IF n.type = "process" /\ n.process # None
             THEN LET produced == QtyOf(n.process[1].outputs, c)
                      consumed == QtyOf(n.process[1].inputs, c)
                  IN <<Constraint("cons[" \o n.id \o "," \o c \o "]",
                                  FlowSum(out_ids, 1) \o FlowSum(in_ids, -1)
                                    \o <<<<-(produced - consumed), RVar(n.id)>>>>,
                                  "==", 0)>>
             ELSE <<>>)
            \o ConservationForNode(n, Tail(corder), by_u, by_v)

RECURSIVE ConservationConstraints(_, _, _, _)
ConservationConstraints(nodes, corder, by_u, by_v) ==
    IF nodes = <<>> THEN <<>>
    ELSE ConservationForNode(Head(nodes), corder, by_u, by_v)
         \o ConservationConstraints(Tail(nodes), corder, by_u, by_v)

\* the four loops that build objective_expr for max_profit
RECURSIVE SinkRevenue(_, _)
SinkRevenue(nodes, delivered_expr) ==
    IF nodes = <<>> THEN <<>>
    ELSE LET n == Head(nodes) IN
         (IF n.type = "sink" /\ n.sink # None
          THEN ScaleExpr(n.sink[1].unit_value, DictGet(delivered_expr, n.id, <<>>))
          ELSE <<>>)
         \o SinkRevenue(Tail(nodes), delivered_expr)

\* a plausible slip of sign: the cost of the sources is added
RECURSIVE SourceCost_Added(_, _)
SourceCost_Added(nodes, outflow_expr) ==
    IF nodes = <<>> THEN <<>>
    ELSE LET n == Head(nodes) IN
         (IF n.type = "source" /\ n.source # None
          THEN ScaleExpr(n.source[1].unit_cost, DictGet(outflow_expr, n.id, <<>>))
          ELSE <<>>)
         \o SourceCost_Added(Tail(nodes), outflow_expr)

RECURSIVE SourceCost(_, _)
SourceCost(nodes, outflow_expr) ==
    IF nodes = <<>> THEN <<>>
    ELSE LET n == Head(nodes) IN
         (IF n.type = "source" /\ n.source # None
          THEN ScaleExpr(-(n.source[1].unit_cost), DictGet(outflow_expr, n.id, <<>>))
          ELSE <<>>)
         \o SourceCost(Tail(nodes), outflow_expr)

RECURSIVE EdgeCost(_)
EdgeCost(edges) ==
    IF edges = <<>> THEN <<>>
    ELSE <<<<-(Head(edges).unit_cost), FVar(Head(edges).id)>>>> \o EdgeCost(Tail(edges))

RECURSIVE ProcessCost(_)
ProcessCost(nodes) ==
    IF nodes = <<>> THEN <<>>
    ELSE LET n == Head(nodes) IN
         (IF n.type = "process" /\ n.process # None
          THEN <<<<-(n.process[1].run_cost), RVar(n.id)>>>>
          ELSE <<>>)
         \o ProcessCost(Tail(nodes))

\* a plausible slip: the profit expression is built whatever the kind
ObjectiveExpr_AlwaysProfit(r, delivered_expr, outflow_expr) ==
    Some(SinkRevenue(r.nodes, delivered_expr) \o SourceCost(r.nodes, outflow_expr)
         \o EdgeCost(r.edges) \o ProcessCost(r.nodes))

\* the objective handed to s.Maximize; None when no branch sets one
ObjectiveExpr(r, delivered_expr, outflow_expr) ==
    LET obj == r.options.objective IN
    IF obj.kind = "max_profit"
    THEN Some(SinkRevenue(r.nodes, delivered_expr) \o SourceCost(r.nodes, outflow_expr)
              \o EdgeCost(r.edges) \o ProcessCost(r.nodes))
    ELSE IF obj.kind = "max_flow_to_sink" /\ obj.sink_node_id # None
    THEN Some(DictGet(delivered_expr, obj.sink_node_id[1], <<>>))
    ELSE None

\* a plausible slip: the test is for an empty string, an unset id passes
SinkIdMissing_EmptyString(obj) == obj.sink_node_id = Some("")

\* sink_id = obj.sink_node_id; if sink_id is None
SinkIdMissing(obj) == obj.sink_node_id = None

\* corder is the order in which this run iterates the set `commodities`
\* pywraplp.Solver.CreateSolver("GLOP") hands back a solver; GLOP is part of every
\* OR-Tools build, so None comes back only where the call is replaced, as the build
\* tests replace it: build_lp called by the build tests may get either, the
\* application always gets a solver
CreateSolver(called_from) ==
    IF called_from = "build_lp" THEN {Some("GLOP"), None} ELSE {Some("GLOP")}

build_lp(r, corder, s) ==
    LET obj == r.options.objective
        by_u == EdgesByUComm(r.edges)
        by_v == EdgesByVComm(r.edges)
        delivered_expr == SinkDeliveredExpr(r.nodes, by_v)
        outflow_expr == SourceOutflowExpr(r.nodes, by_u)
    IN IF s = None
       THEN [exc |-> RuntimeError(<<"Failed to create OR-Tools GLOP solver.">>), value |-> None]
       ELSE IF obj.kind = "max_flow_to_sink" /\ SinkIdMissing(obj)
       THEN [exc |-> DomainError(<<"objective.kind='max_flow_to_sink' ",
                                   "requires objective.sink_node_id", ".">>),
             value |-> None]
       ELSE [exc |-> NoExc,
             value |-> Some([
               f_edge |-> FEdgeKeys(r.edges),
               r_proc |-> RProcKeys(r.nodes),
               edge_caps |-> EdgeCaps(r.edges),
               source_supply_caps |-> SourceSupplyCaps(r.nodes),
               sink_demand_caps |-> SinkDemandCaps(r.nodes),
               proc_run_caps |-> ProcRunCaps(r.nodes),
               edges_by_u_comm |-> by_u,
               edges_by_v_comm |-> by_v,
               sink_delivered_expr |-> delivered_expr,
               source_outflow_expr |-> outflow_expr,
               constraints |-> EdgeCapConstraints(r.edges)
                               \o SupplyConstraints(r.nodes, by_u)
                               \o DemandConstraints(r.nodes, by_v)
                               \o RunCapConstraints(r.nodes)
                               \o TopologyConstraints(r.nodes, corder, by_u, by_v)
                               \o ConservationConstraints(r.nodes, corder, by_u, by_v),
               objective |-> ObjectiveExpr(r, delivered_expr, outflow_expr)])]

----------------------------------------------------------------------------
(* The solve capability (OR-Tools GLOP behind s.Solve()).  It is external: *)
(* the model lets it answer any status code; with OPTIMAL it hands back a  *)
(* feasible assignment of maximal objective, with FEASIBLE any feasible    *)
(* assignment, and it answers INFEASIBLE only when no assignment of the    *)
(* value grid is feasible, which a negative cap brings about (a request    *)
(* that did not pass the schema).  Values are multiples of Grain ticks,    *)
(* that is of 2^-21 (about 4.77e-7), which lies between the two default    *)
(* tolerances; twice that, 2^-20 (about 9.54e-7), is below 1e-6.           *)

OPTIMAL == 0

FEASIBLE == 1

INFEASIBLE == 2

UNBOUNDED == 3

ABNORMAL == 4

MODEL_INVALID == 5

NOT_SOLVED == 6

UNKNOWN_STATUS == 999999

StatusCodes ==
    {OPTIMAL, FEASIBLE, INFEASIBLE, UNBOUNDED, ABNORMAL, MODEL_INVALID, NOT_SOLVED, UNKNOWN_STATUS}

\* default of extract_solution's eps (1e-7) and of _compute_tight_constraints' eps (1e-6),
\* in whole ticks of 2^-24: slack <= 1e-7 exactly when slack <= 1, slack <= 1e-6 exactly
\* when slack <= 16, for a slack that is a whole count of ticks
EPS_EXTRACT_DEFAULT == 1

EPS_TIGHT_DEFAULT == 16

Grain == EPS_TIGHT_DEFAULT \div 2

MaxUnits == 2

Vals == {Grain * k : k \in 0..MaxUnits}

LpVars(b) == {FVar(b.f_edge[i]) : i \in 1..Len(b.f_edge)} \cup {RVar(b.r_proc[i]) : i \in 1..Len(b.r_proc)}

RECURSIVE Eval(_, _)
Eval(expr, a) ==
    IF expr = <<>> THEN 0 ELSE Head(expr)[1] * a[Head(expr)[2]] + Eval(Tail(expr), a)

Satisfies(c, a) ==
    IF c.sense = "<=" THEN Eval(c.terms, a) <= c.bound ELSE Eval(c.terms, a) = c.bound

\* NumVar(0.0, infinity): every variable is >= 0, which the value grid gives
Feasible(b, a) == \A i \in 1..Len(b.constraints) : Satisfies(b.constraints[i], a)

FeasibleSet(b) == {a \in [LpVars(b) -> Vals] : Feasible(b, a)}

\* s.Objective().Value()
ObjectiveValue(b, a) == IF b.objective = None THEN 0 ELSE Eval(b.objective[1], a)

OptimalSet(b) ==
    LET F == FeasibleSet(b) IN
    {a \in F : \A a2 \in F : ObjectiveValue(b, a2) <= ObjectiveValue(b, a)}

NoSolution == <<>>

\* what s.Solve() can answer for the built model: <<status code, variable values>>
SolverAnswers(b) ==
    LET F == FeasibleSet(b) IN
    ({OPTIMAL} \X OptimalSet(b))
    \cup ({FEASIBLE} \X F)
    \cup (IF F = {} THEN {<<INFEASIBLE, NoSolution>>} ELSE {<<UNBOUNDED, NoSolution>>})
    \cup ({ABNORMAL, MODEL_INVALID, NOT_SOLVED, UNKNOWN_STATUS} \X {NoSolution})

----------------------------------------------------------------------------
(* app/solvers/lp/extract.py                                               *)

\* a plausible slip: INFEASIBLE is left out of status_map and falls to the default
StatusMap_WithoutInfeasible(code) ==
    IF code = OPTIMAL THEN "optimal"
    ELSE IF code = FEASIBLE THEN "optimal"
    ELSE IF code = UNBOUNDED THEN "unbounded"
    ELSE "error"

\* status_map.get(status_code, SolveStatus.ERROR)
StatusMap(code) ==
    IF code = OPTIMAL THEN "optimal"
    ELSE IF code = FEASIBLE THEN "optimal"
    ELSE IF code = INFEASIBLE THEN "infeasible"
    ELSE IF code = UNBOUNDED THEN "unbounded"
    ELSE "error"

_status_message(code) ==
    IF code = MODEL_INVALID
    THEN <<"Model is invalid (NaN/Inf coefficients or malformed constraints).">>
    ELSE IF code = NOT_SOLVED
    THEN <<"Model not solved (solver did not run or stopped early).">>
    ELSE IF code = ABNORMAL
    THEN <<"Solver ended abnormally.">>
    ELSE <<"Unknown solver status: ", ToString(code)>>

SolveResult(status, message, objective_value, edge_flows, process_runs, sink_delivered, tight) ==
    [status |-> status, message |-> message, objective_value |-> objective_value,
     edge_flows |-> edge_flows, process_runs |-> process_runs,
     sink_delivered |-> sink_delivered, tight_constraints |-> tight]

\* a plausible slip: the empty result reports an objective value of 0.0
_empty_result_WithObjective(status, message) ==
    SolveResult(status, message, Some(0), <<>>, <<>>, <<>>, <<>>)

_empty_result(status, message) ==
    SolveResult(status, message, None, <<>>, <<>>, <<>>, <<>>)

\* {eid: var.solution_value() for eid, var in built.f_edge.items()}
RECURSIVE EdgeFlows(_, _)
EdgeFlows(keys, a) ==
    IF keys = <<>> THEN <<>>
    ELSE <<<<Head(keys), a[FVar(Head(keys))]>>>> \o EdgeFlows(Tail(keys), a)

\* {nid: var.solution_value() for nid, var in built.r_proc.items()}
RECURSIVE ProcessRuns(_, _)
ProcessRuns(keys, a) ==
    IF keys = <<>> THEN <<>>
    ELSE <<<<Head(keys), a[RVar(Head(keys))]>>>> \o ProcessRuns(Tail(keys), a)

\* a plausible slip: only the first edge of the list is counted
UsedFlow_FirstOnly(ids, edge_flows) ==
    IF ids = <<>> THEN 0 ELSE DictGet(edge_flows, Head(ids), 0)

\* sum(edge_flows.get(eid, 0.0) for eid in ids)
RECURSIVE UsedFlow(_, _)
UsedFlow(ids, edge_flows) ==
    IF ids = <<>> THEN 0
    ELSE DictGet(edge_flows, Head(ids), 0) + UsedFlow(Tail(ids), edge_flows)

RECURSIVE _compute_sink_delivered(_, _, _)
_compute_sink_delivered(nodes, b, edge_flows) ==
    IF nodes = <<>> THEN <<>>
    ELSE LET d == _compute_sink_delivered(SubSeq(nodes, 1, Len(nodes) - 1), b, edge_flows)
             n == nodes[Len(nodes)]
         IN IF n.type # "sink" \/ n.sink = None THEN d
            ELSE DictSet(d, n.id,
                         UsedFlow(DictGet(b.edges_by_v_comm, <<n.id, n.sink[1].commodity>>, <<>>),
                                  edge_flows))

TightConstraint(name, slack) == [name |-> name, slack |-> slack]

\* a plausible slip: a strict comparison, so that a slack of exactly eps is not tight
IsTight_Strict(slack, eps) == slack < eps

\* slack <= eps
IsTight(slack, eps) == slack <= eps

RECURSIVE TightEdgeCaps(_, _, _)
TightEdgeCaps(caps, edge_flows, eps) ==
    IF caps = <<>> THEN <<>>
    ELSE LET eid == Head(caps)[1]
             slack == Head(caps)[2] - DictGet(edge_flows, eid, 0)
         IN (IF IsTight(slack, eps) THEN <<TightConstraint("edge_cap:" \o eid, slack)>> ELSE <<>>)
            \o TightEdgeCaps(Tail(caps), edge_flows, eps)

RECURSIVE TightSourceSupply(_, _, _, _, _)
TightSourceSupply(caps, nodes, b, edge_flows, eps) ==
    IF caps = <<>> THEN <<>>
    ELSE LET nid == Head(caps)[1]
             n == DictGet(nodes, nid, None)
             out_ids == DictGet(b.edges_by_u_comm, <<nid, n.source[1].commodity>>, <<>>)
             slack == Head(caps)[2] - UsedFlow(out_ids, edge_flows)
         IN (IF IsTight(slack, eps) THEN <<TightConstraint("source_supply:" \o nid, slack)>> ELSE <<>>)
            \o TightSourceSupply(Tail(caps), nodes, b, edge_flows, eps)

RECURSIVE TightSinkDemand(_, _, _, _, _)
TightSinkDemand(caps, nodes, b, edge_flows, eps) ==
    IF caps = <<>> THEN <<>>
    ELSE LET nid == Head(caps)[1]
             n == DictGet(nodes, nid, None)
             in_ids == DictGet(b.edges_by_v_comm, <<nid, n.sink[1].commodity>>, <<>>)
             slack == Head(caps)[2] - UsedFlow(in_ids, edge_flows)
         IN (IF IsTight(slack, eps) THEN <<TightConstraint("sink_demand:" \o nid, slack)>> ELSE <<>>)
            \o TightSinkDemand(Tail(caps), nodes, b, edge_flows, eps)

RECURSIVE TightRunCaps(_, _, _)
TightRunCaps(caps, process_runs, eps) ==
    IF caps = <<>> THEN <<>>
    ELSE LET nid == Head(caps)[1]
             slack == Head(caps)[2] - DictGet(process_runs, nid, 0)
         IN (IF IsTight(slack, eps) THEN <<TightConstraint("process_run_cap:" \o nid, slack)>> ELSE <<>>)
            \o TightRunCaps(Tail(caps), process_runs, eps)

\* a plausible slip: an unstable sort, a record goes in front of its ties
RECURSIVE InsertBySlack_TiesFirst(_, _)
InsertBySlack_TiesFirst(sorted_list, t) ==
    IF sorted_list = <<>> THEN <<t>>
    ELSE LET last == sorted_list[Len(sorted_list)] IN
         IF last.slack < t.slack THEN Append(sorted_list, t)
         ELSE Append(InsertBySlack_TiesFirst(SubSeq(sorted_list, 1, Len(sorted_list) - 1), t), last)

\* list.sort(key=lambda x: x.slack): stable, ascending
RECURSIVE InsertBySlack(_, _)
InsertBySlack(sorted_list, t) ==
    IF sorted_list = <<>> THEN <<t>>
    ELSE LET last == sorted_list[Len(sorted_list)] IN
         IF last.slack <= t.slack THEN Append(sorted_list, t)
         ELSE Append(InsertBySlack(SubSeq(sorted_list, 1, Len(sorted_list) - 1), t), last)

RECURSIVE SortBySlack(_)
SortBySlack(l) ==
    IF l = <<>> THEN <<>>
    ELSE InsertBySlack(SortBySlack(SubSeq(l, 1, Len(l) - 1)), l[Len(l)])

\* the two `assert n.source is not None` / `assert n.sink is not None`
TightAssertionsHold(spec, b) ==
    LET nodes == NodesById(spec.nodes) IN
    /\ \A i \in 1..Len(b.source_supply_caps) :
          DictGet(nodes, b.source_supply_caps[i][1], None).source # None
    /\ \A i \in 1..Len(b.sink_demand_caps) :
          DictGet(nodes, b.sink_demand_caps[i][1], None).sink # None

_compute_tight_constraints(spec, b, edge_flows, process_runs, eps) ==
    LET nodes == NodesById(spec.nodes) IN
    SortBySlack(TightEdgeCaps(b.edge_caps, edge_flows, eps)
                \o TightSourceSupply(b.source_supply_caps, nodes, b, edge_flows, eps)
                \o TightSinkDemand(b.sink_demand_caps, nodes, b, edge_flows, eps)
                \o TightRunCaps(b.proc_run_caps, process_runs, eps))

\* the eps that extract_solution passes on as eps=eps
TightEps(eps) == eps

\* ans is what s.Solve() answered: <<status code, variable values>>
extract_solution(spec, b, eps, ans) ==
    LET code == ans[1]
        a == ans[2]
        result_status == StatusMap(code)
    IN IF result_status = "infeasible"
       THEN [exc |-> NoExc, value |-> Some(_empty_result("infeasible", Some(<<"Model is infeasible.">>)))]
       ELSE IF result_status = "unbounded"
       THEN [exc |-> NoExc, value |-> Some(_empty_result("unbounded", Some(<<"Model is unbounded.">>)))]
       ELSE IF result_status = "error"
       THEN [exc |-> NoExc, value |-> Some(_empty_result("error", Some(_status_message(code))))]
       ELSE LET message == IF code = FEASIBLE
                           THEN Some(<<"Solver returned FEASIBLE (treated as optimal).">>)
                           ELSE None
                edge_flows == EdgeFlows(b.f_edge, a)
                process_runs == ProcessRuns(b.r_proc, a)
                sink_delivered == _compute_sink_delivered(spec.nodes, b, edge_flows)
            IN IF ~TightAssertionsHold(spec, b)
               THEN [exc |-> <<[exc |-> "AssertionError", reason |-> <<>>]>>, value |-> None]
               ELSE [exc |-> NoExc,
                     value |-> Some(SolveResult(
                        result_status, message, Some(ObjectiveValue(b, a)),
                        edge_flows, process_runs, sink_delivered,
                        _compute_tight_constraints(spec, b, edge_flows, process_runs, TightEps(eps))))]

\* def extract_solution(spec, built, eps: float = 1e-7)
EpsOf(arg) == IF arg = None THEN EPS_EXTRACT_DEFAULT ELSE arg[1]

----------------------------------------------------------------------------
(* app/domain/schema.py: the request model, and the requests explored      *)

SourceData(commodity, supply_cap, unit_cost) ==
    [commodity |-> commodity, supply_cap |-> supply_cap, unit_cost |-> unit_cost]

SinkData(commodity, demand_cap, unit_value) ==
    [commodity |-> commodity, demand_cap |-> demand_cap, unit_value |-> unit_value]

ProcessIO(commodity, qty) == [commodity |-> commodity, qty |-> qty]

ProcessData(inputs, outputs, run_cap, run_cost) ==
    [inputs |-> inputs, outputs |-> outputs, run_cap |-> run_cap, run_cost |-> run_cost]

NodeSpec(id, type, source, sink, process) ==
    [id |-> id, type |-> type, source |-> source, sink |-> sink, process |-> process]

EdgeSpec(id, u, v, commodity, cap, unit_cost) ==
    [id |-> id, u |-> u, v |-> v, commodity |-> commodity, cap |-> cap, unit_cost |-> unit_cost]

SolveObjective(kind, sink_node_id) == [kind |-> kind, sink_node_id |-> sink_node_id]

SolveRequest(nodes, edges, objective) ==
    [nodes |-> nodes, edges |-> edges, options |-> [mode |-> "lp", objective |-> objective]]

SourceNode(id, c, cap, cost) == NodeSpec(id, "source", Some(SourceData(c, cap, cost)), None, None)

SinkNode(id, c, cap, value) == NodeSpec(id, "sink", None, Some(SinkData(c, cap, value)), None)

ProcessNode(id, inputs, outputs, run_cap) ==
    NodeSpec(id, "process", None, None, Some(ProcessData(inputs, outputs, run_cap, 0)))

\* NodeSpec.model_construct(...) with no payload, as the defensive tests build it
BareNode(id, type) == NodeSpec(id, type, None, None, None)

Commodities == {"a", "b"}

CapHi == Grain * MaxUnits

OptVals == {None} \cup {Some(v) : v \in Vals}

MaxProfit == SolveObjective("max_profit", None)

\* nodes that pass the node-level checks
GoodNodes(id) ==
    { SourceNode(id, "a", CapHi, 1),
      SinkNode(id, "a", CapHi, 2),
      SinkNode(id, "a", 0, 2),
      SinkNode(id, "b", CapHi, 2),
      ProcessNode(id, <<ProcessIO("a", 1)>>, <<ProcessIO("b", 1)>>, None) }

\* nodes that fail a node-level check
BadNodes(id) ==
    { BareNode(id, "source"), BareNode(id, "sink"), BareNode(id, "process"),
      ProcessNode(id, <<>>, <<ProcessIO("b", 1)>>, None),
      ProcessNode(id, <<ProcessIO("a", 1)>>, <<>>, None),
      ProcessNode(id, <<ProcessIO("a", 1), ProcessIO("a", 2)>>, <<ProcessIO("b", 1)>>, None),
      ProcessNode(id, <<ProcessIO("a", 1)>>, <<ProcessIO("b", 1), ProcessIO("b", 2)>>, None) }

AnyNodes(id) == GoodNodes(id) \cup BadNodes(id)

EdgesOver(eid, ids) ==
    {EdgeSpec(eid, u, v, c, None, 0) : u \in ids, v \in ids, c \in Commodities}

\* no edge, one edge over ids, or two edges (ids distinct or shared) over ids2
EdgeListsOver(ids, ids2) ==
    {<<>>} \cup {<<e>> : e \in EdgesOver("e1", ids)}
    \cup {<<e, f>> : e \in EdgesOver("e1", ids2), f \in EdgesOver("e2", ids2) \cup EdgesOver("e1", ids2)}

----------------------------------------------------------------------------
(* Families of requests                                                    *)

\* one or two nodes of any shape, ids unique or duplicated, with and without an edge
RequestsNodeLevel ==
    LET lists == {<<n>> : n \in AnyNodes("n1")}
                 \cup {<<m, n>> : m \in AnyNodes("n1"), n \in AnyNodes("n2") \cup AnyNodes("n1")}
        edges == {<<>>, <<EdgeSpec("e1", "n1", "n2", "a", None, 0)>>}
    IN {SolveRequest(l, e, o) : l \in lists, e \in edges,
                                o \in {MaxProfit, SolveObjective("max_flow_to_sink", None)}}

\* input and output lists of a process: empty, single, repeated, repeated out of order
IoLists ==
    LET a == ProcessIO("a", 1)
        b == ProcessIO("b", 1)
    IN {<<>>, <<a>>, <<a, b>>, <<a, b, a>>, <<b, a, b, a>>}

ProcessVariants(id) == {ProcessNode(id, i, o, None) : i \in IoLists, o \in IoLists}

\* a source or a process followed by a process, every combination of input and output lists
RequestsProcessLevel ==
    {SolveRequest(<<m, n>>, <<>>, MaxProfit) :
        m \in {SourceNode("n1", "a", CapHi, 1)} \cup ProcessVariants("n1"),
        n \in ProcessVariants("n2")}

\* source -> process -> sink where an edge may be missing, and where the process
\* may list b among its inputs as well as among its outputs
RequestsStarvedProcess ==
    LET a1 == ProcessIO("a", 1)
        b1 == ProcessIO("b", 1)
        b2 == ProcessIO("b", 2)
        procs == {ProcessNode("n2", <<a1>>, <<b1>>, None),
                  ProcessNode("n2", <<a1, b1>>, <<b2>>, None),
                  ProcessNode("n2", <<a1>>, <<a1, b1>>, None)}
        into(x) == EdgeSpec("e1", "n1", "n2", x, None, 0)
        out == EdgeSpec("e2", "n2", "n3", "b", None, 0)
        edges(x) == {<<out>>, <<into(x)>>, <<into(x), out>>}
    IN UNION {{SolveRequest(<<SourceNode("n1", c, CapHi, 1), p, SinkNode("n3", "b", CapHi, 2)>>,
                            e, MaxProfit) : p \in procs, e \in edges(c)} : c \in Commodities}

\* two well-formed nodes; one edge over them and a missing node, or two edges over them
RequestsEdgeLevel2 ==
    LET lists == {<<m, n>> : m \in GoodNodes("n1"), n \in GoodNodes("n2")}
    IN {SolveRequest(l, e, MaxProfit) :
           l \in lists, e \in EdgeListsOver({"n1", "n2", "missing_node"}, {"n1", "n2"})}

\* a producer, any well-formed node and a sink, with up to two edges between them
RequestsEdgeLevel3 ==
    LET first == {n \in GoodNodes("n1") : n.type # "sink"}
        last == {n \in GoodNodes("n3") : n.type = "sink"}
        lists == {<<l, m, n>> : l \in first, m \in GoodNodes("n2"), n \in last}
        ids == {"n1", "n2", "n3"}
        edges == {<<>>} \cup {<<e>> : e \in EdgesOver("e1", ids)}
                 \cup {<<e, f>> : e \in EdgesOver("e1", ids), f \in EdgesOver("e2", ids)}
    IN {SolveRequest(l, e, MaxProfit) : l \in lists, e \in edges}

Objectives ==
    {MaxProfit, SolveObjective("min_cost", None), SolveObjective("max_flow_to_sink", None)}
    \cup {SolveObjective("max_flow_to_sink", Some(id)) : id \in {"n1", "n2", "missing"}}

\* two well-formed nodes, at most one edge, every objective
RequestsObjectiveLevel ==
    LET lists == {<<m, n>> : m \in GoodNodes("n1"), n \in GoodNodes("n2")}
        edges == {<<>>} \cup {<<e>> : e \in EdgesOver("e1", {"n1", "n2"})}
    IN {SolveRequest(l, e, o) : l \in lists, e \in edges, o \in Objectives}

\* source -> sink with every combination of caps (simple_source_sink)
RequestsSimple ==
    {SolveRequest(<<SourceNode("n1", "a", s, 1), SinkNode("n2", "a", d, v)>>,
                  <<EdgeSpec("e1", "n1", "n2", "a", c, 0)>>, o) :
        s \in Vals, d \in Vals, c \in OptVals, v \in {0, 2},
        o \in {MaxProfit, SolveObjective("max_flow_to_sink", Some("n2"))}}

\* source -> 1:1 process -> sink (bottleneck_edge, process_chain_with_run_cap)
RequestsChain ==
    {SolveRequest(<<SourceNode("n1", "a", CapHi, 1),
                    ProcessNode("n2", <<ProcessIO("a", 1)>>, <<ProcessIO("b", 1)>>, rc),
                    SinkNode("n3", "b", d, 2)>>,
                  <<EdgeSpec("e1", "n1", "n2", "a", c, 0),
                    EdgeSpec("e2", "n2", "n3", "b", None, 0)>>, MaxProfit) :
        d \in Vals, c \in OptVals, rc \in OptVals}

\* two sources feeding one sink
RequestsFanIn ==
    {SolveRequest(<<SourceNode("n1", "a", s, 1), SourceNode("n2", "a", CapHi, 1),
                    SinkNode("n3", "a", d, 2)>>,
                  <<EdgeSpec("e1", "n1", "n3", "a", c, 0),
                    EdgeSpec("e2", "n2", "n3", "a", None, 0)>>, MaxProfit) :
        s \in Vals, d \in Vals, c \in OptVals}

\* a chain in which the source, an edge and the process all cost something
RequestsCosted ==
    {SolveRequest(<<SourceNode("n1", "a", CapHi, 1),
                    NodeSpec("n2", "process", None, None,
                             Some(ProcessData(<<ProcessIO("a", 1)>>, <<ProcessIO("b", 1)>>, None, 1))),
                    SinkNode("n3", "b", d, v)>>,
                  <<EdgeSpec("e1", "n1", "n2", "a", None, 1),
                    EdgeSpec("e2", "n2", "n3", "b", None, 0)>>, MaxProfit) :
        d \in Vals \ {0}, v \in {2, 4}}

\* one source feeding two sinks of the same commodity, one paying 10 and one paying 1
RequestsFanOut ==
    {SolveRequest(<<SourceNode("n1", "a", s, 0), SinkNode("n2", "a", d, 10),
                    SinkNode("n3", "a", CapHi, 1)>>,
                  <<EdgeSpec("e1", "n1", "n2", "a", None, 0),
                    EdgeSpec("e2", "n1", "n3", "a", None, 0)>>, MaxProfit) :
        s \in Vals, d \in Vals}

RequestsCapacity ==
    RequestsSimple \cup RequestsChain \cup RequestsFanIn \cup RequestsFanOut \cup RequestsCosted

\* requests built past the schema (model_construct), so that its ge=0 bounds are not
\* checked: a supply cap, a demand cap, an edge cap or a run cap is negative
RequestsNegativeCap ==
    {SolveRequest(<<SourceNode("n1", "a", t[1], 1), SinkNode("n2", "a", t[2], 2)>>,
                  <<EdgeSpec("e1", "n1", "n2", "a", t[3], 0)>>, MaxProfit) :
        t \in {<<-Grain, CapHi, None>>, <<CapHi, -Grain, None>>, <<CapHi, CapHi, Some(-Grain)>>}}
    \cup {SolveRequest(<<SourceNode("n1", "a", CapHi, 1),
                         ProcessNode("n2", <<ProcessIO("a", 1)>>, <<ProcessIO("b", 1)>>, Some(-Grain)),
                         SinkNode("n3", "b", CapHi, 2)>>,
                       <<EdgeSpec("e1", "n1", "n2", "a", None, 0),
                         EdgeSpec("e2", "n2", "n3", "b", None, 0)>>, MaxProfit)}

\* requests handed to build_lp without validation, as the build tests do
RequestsUnvalidated ==
    RequestsObjectiveLevel
    \cup {SolveRequest(<<SourceNode("n1", "a", CapHi, 1), SinkNode("n2", "a", CapHi, 2)>>,
                       <<EdgeSpec("e1", "n1", "n2", "a", None, 0),
                         EdgeSpec("e2", "n2", "n1", "a", None, 0)>>, MaxProfit)}

----------------------------------------------------------------------------
(* app/domain/schema.py: what pydantic checks when it builds the request   *)
(* from a JSON body (Field constraints and NodeSpec's model validator)     *)

\* a plausible slip: the ge=0 bound on supply_cap is missing
SourceDataValid_NoLowerBound(s) == s.commodity # ""

SourceDataValid(s) == s.commodity # "" /\ s.supply_cap >= 0

SinkDataValid(s) == s.commodity # "" /\ s.demand_cap >= 0

ProcessIOValid(io) == io.commodity # "" /\ io.qty > 0

ProcessDataValid(p) ==
    /\ \A k \in 1..Len(p.inputs) : ProcessIOValid(p.inputs[k])
    /\ \A k \in 1..Len(p.outputs) : ProcessIOValid(p.outputs[k])
    /\ p.run_cap # None => p.run_cap[1] >= 0

\* NodeSpec._check_payload_matches_type
PayloadMatchesType(n) ==
    /\ n.type = "source" => n.source # None /\ n.sink = None /\ n.process = None
    /\ n.type = "sink" => n.sink # None /\ n.source = None /\ n.process = None
    /\ n.type = "process" => n.process # None /\ n.source = None /\ n.sink = None

NodeSpecValid(n) ==
    /\ n.id # "" /\ n.type \in {"source", "process", "sink"}
    /\ n.source # None => SourceDataValid(n.source[1])
    /\ n.sink # None => SinkDataValid(n.sink[1])
    /\ n.process # None => ProcessDataValid(n.process[1])
    /\ PayloadMatchesType(n)

EdgeSpecValid(e) ==
    /\ e.id # "" /\ e.u # "" /\ e.v # "" /\ e.commodity # ""
    /\ e.cap # None => e.cap[1] >= 0

SolveObjectiveValid(o) == o.kind \in {"max_profit", "max_flow_to_sink"}

SolveOptionsValid(o) == o.mode = "lp" /\ SolveObjectiveValid(o.objective)

SolveRequestValid(r) ==
    /\ \A i \in 1..Len(r.nodes) : NodeSpecValid(r.nodes[i])
    /\ \A k \in 1..Len(r.edges) : EdgeSpecValid(r.edges[k])
    /\ SolveOptionsValid(r.options)

\* JSON bodies posted to the endpoint: well-formed ones, and ones with a negative cap,
\* a missing payload, a qty of 0 or an unknown objective kind
RequestsHttp ==
    LET firsts == {SourceNode("n1", "a", s, 1) : s \in {-Grain, CapHi}}
                  \cup {BareNode("n1", "source")}
        seconds == {SinkNode("n2", "a", d, 2) : d \in {-Grain, Grain}}
                   \cup {SinkNode("n2", "b", CapHi, 2),
                         ProcessNode("n2", <<ProcessIO("a", 0)>>, <<ProcessIO("b", 1)>>, None)}
        edges == {<<>>} \cup {<<EdgeSpec("e1", "n1", "n2", "a", c, 0)>> :
                                 c \in {None, Some(-Grain), Some(Grain)}}
        objectives == {MaxProfit, SolveObjective("min_cost", None),
                       SolveObjective("max_flow_to_sink", Some("n2"))}
    IN {SolveRequest(<<m, n>>, e, o) : m \in firsts, n \in seconds, e \in edges, o \in objectives}

\* what the client receives
JSONResponse(code, content) == [status_code |-> code, content |-> content]

----------------------------------------------------------------------------
(* The entry points.  entry = "http" is POST /v1/solve with a JSON body,   *)
(* "solve" is solve(req) of api/v1/solve.py called with a request object,  *)
(* "solve_lp" is solvers/lp/solver.py called directly, "extract_solution"  *)
(* is build_lp followed by extract_solution(spec, built, eps), "build_lp"  *)
(* is build_lp alone, with CreateSolver as the library has it or replaced. *)

Raised(x) == x # NoExc

\* the eps argument of extract_solution: left out, or given
EpsArgs == {None, Some(Grain), Some(EPS_TIGHT_DEFAULT)}

\* no traversal is being stepped through
BfsIdle == [at |-> "idle"]

Init ==
    /\ \/ entry = "solve" /\ eps_arg = None
          /\ req \in RequestsNodeLevel \cup RequestsProcessLevel \cup RequestsEdgeLevel2
                     \cup RequestsEdgeLevel3 \cup RequestsObjectiveLevel \cup RequestsCapacity
                     \cup RequestsStarvedProcess
       \/ entry = "solve_lp" /\ eps_arg = None
          /\ req \in RequestsUnvalidated \cup RequestsNegativeCap
       \/ entry = "extract_solution" /\ eps_arg \in EpsArgs
          /\ req \in RequestsCapacity \cup RequestsNegativeCap
       \/ entry = "http" /\ eps_arg = None /\ req \in RequestsHttp
       \/ entry = "build_lp" /\ eps_arg = None /\ req \in RequestsSimple
    /\ pc = "start"
    /\ exc = NoExc
    /\ built = None
    /\ status_code = NOT_SOLVED
    /\ sol = NoSolution
    /\ result = None
    /\ calls = <<>>
    /\ http = None
    /\ bfs = BfsIdle

\* FastAPI builds the SolveRequest from the body; a body pydantic rejects is answered with 422
ParseBody ==
    /\ entry = "http" /\ pc = "start"
    /\ IF SolveRequestValid(req)
       THEN pc' = "parsed" /\ UNCHANGED http
       ELSE /\ pc' = "responded"
            /\ http' = Some(JSONResponse(422, [detail |-> <<"RequestValidationError">>]))
    /\ UNCHANGED <<req, entry, eps_arg, exc, built, status_code, sol, result, calls, bfs>>

\* solve(): spec = normalize_request(req); validate_request(spec)
normalize_request(r) == r

Validate ==
    /\ \/ entry = "solve" /\ pc = "start"
       \/ entry = "http" /\ pc = "parsed"
    /\ exc' = validate_request(normalize_request(req))
    /\ pc' = IF Raised(exc') THEN "raised" ELSE "validated"
    /\ calls' = Append(calls, "validate_request")
    /\ UNCHANGED <<req, entry, eps_arg, built, status_code, sol, result, http, bfs>>

\* solve(): the mode check, then solve_lp(): built = build_lp(spec)
BuildLP ==
    /\ \/ entry \in {"solve", "http"} /\ pc = "validated"
       \/ entry \in {"solve_lp", "extract_solution", "build_lp"} /\ pc = "start"
    /\ IF entry \in {"solve", "http"} /\ req.options.mode # "lp"
       THEN /\ result' = Some(SolveResult("error",
                                Some(<<"Mode '", req.options.mode,
                                       "' not implemented yet (supports mode='lp').">>),
                                None, <<>>, <<>>, <<>>, <<>>))
            /\ pc' = "returned"
            /\ UNCHANGED <<exc, built, calls>>
       ELSE \E corder \in IterationOrders(CommoditiesOf(req)), s \in CreateSolver(entry) :
               LET b == build_lp(req, corder, s) IN
               /\ exc' = b.exc
               /\ built' = b.value
               /\ pc' = IF Raised(b.exc) THEN "raised" ELSE "built"
               /\ calls' = Append(calls, "build_lp")
               /\ UNCHANGED result
    /\ UNCHANGED <<req, entry, eps_arg, status_code, sol, http, bfs>>

\* extract_solution(spec, built[, eps]): s.Solve(), then the mapping of its answer
ExtractSolution ==
    /\ pc = "built" /\ entry # "build_lp"
    /\ \E ans \in SolverAnswers(built[1]) :
          LET r == extract_solution(req, built[1], EpsOf(eps_arg), ans) IN
          /\ status_code' = ans[1]
          /\ sol' = ans[2]
          /\ exc' = r.exc
          /\ result' = r.value
          /\ pc' = IF Raised(r.exc) THEN "raised" ELSE "returned"
    /\ calls' = Append(calls, "extract_solution")
    /\ UNCHANGED <<req, entry, eps_arg, built, http, bfs>>

\* @app.exception_handler(DomainError)
domain_error_handler ==
    /\ entry = "http" /\ pc = "raised"
    /\ exc # NoExc /\ exc[1].exc = "DomainError"
    /\ http' = Some(JSONResponse(400, [detail |-> exc[1].reason]))
    /\ pc' = "responded"
    /\ UNCHANGED <<req, entry, eps_arg, exc, built, status_code, sol, result, calls, bfs>>

\* the SolveResult that solve() returns is sent as the body of a 200 response
Respond ==
    /\ entry = "http" /\ pc = "returned"
    /\ http' = Some(JSONResponse(200, result[1]))
    /\ pc' = "responded"
    /\ UNCHANGED <<req, entry, eps_arg, exc, built, status_code, sol, result, calls, bfs>>

Next == ParseBody \/ Validate \/ BuildLP \/ ExtractSolution \/ domain_error_handler \/ Respond

Spec == Init /\ [][Next]_vars

----------------------------------------------------------------------------
(* _reverse_reachable_from_any_producer, one iteration of its while loop   *)
(* at a time.  The graph is any set of edges of one commodity over three   *)
(* node ids, self-loops and cycles included; the producers are any subset  *)
(* of the ids; the walk starts at the sink n3.                             *)

BfsNodes == {"n1", "n2", "n3"}

BfsPairs ==
    <<<<"n1", "n1">>, <<"n1", "n2">>, <<"n1", "n3">>,
      <<"n2", "n1">>, <<"n2", "n2">>, <<"n2", "n3">>,
      <<"n3", "n1">>, <<"n3", "n2">>, <<"n3", "n3">>>>

BfsEdgeNames == <<"e1", "e2", "e3", "e4", "e5", "e6", "e7", "e8", "e9">>

\* the edges chosen by the index set S, in the order of BfsPairs from index k on
RECURSIVE BfsEdgesFrom(_, _)
BfsEdgesFrom(S, k) ==
    IF k > Len(BfsPairs) THEN <<>>
    ELSE (IF k \in S
          THEN <<EdgeSpec(BfsEdgeNames[k], BfsPairs[k][1], BfsPairs[k][2], "a", None, 0)>>
          ELSE <<>>) \o BfsEdgesFrom(S, k + 1)

BfsEdgeLists == {BfsEdgesFrom(S, 1) : S \in SUBSET (1..Len(BfsPairs))}

\* q = deque([sink_id]); seen = {sink_id}
BfsStart(edges, producers, sink_id) ==
    [at |-> "while", edges |-> edges, comm |-> "a", producers |-> producers, sink_id |-> sink_id,
     q |-> <<sink_id>>, seen |-> {sink_id},
     enqueued |-> [id \in BfsNodes |-> IF id = sink_id THEN 1 ELSE 0],
     ret |-> None]

BfsInit ==
    /\ entry = "_reverse_reachable_from_any_producer"
    /\ req = SolveRequest(<<>>, <<>>, MaxProfit)
    /\ eps_arg = None
    /\ pc = "start"
    /\ exc = NoExc
    /\ built = None
    /\ status_code = NOT_SOLVED
    /\ sol = NoSolution
    /\ result = None
    /\ calls = <<>>
    /\ http = None
    /\ \E edges \in BfsEdgeLists, producers \in SUBSET BfsNodes :
          bfs = BfsStart(edges, producers, "n3")

\* how often id occurs in the sequence s
Occurrences(s, id) == Cardinality({k \in 1..Len(s) : s[k] = id})

\* one pass through the body of `while q`
BfsIterate ==
    /\ bfs.at = "while" /\ bfs.q # <<>>
    /\ LET v == Head(bfs.q) IN
       IF v \in bfs.producers
       THEN bfs' = [bfs EXCEPT !.at = "returned", !.q = Tail(bfs.q), !.ret = Some(TRUE)]
       ELSE LET nxt == EnqueueUnseen(Radj(bfs.edges, bfs.comm, v), Tail(bfs.q), bfs.seen)
                added == SubSeq(nxt[1], Len(bfs.q), Len(nxt[1]))
            IN bfs' = [bfs EXCEPT !.q = nxt[1], !.seen = nxt[2],
                                  !.enqueued = [id \in BfsNodes |->
                                                   bfs.enqueued[id] + Occurrences(added, id)]]
    /\ UNCHANGED <<req, entry, eps_arg, pc, exc, built, status_code, sol, result, calls, http>>

\* the loop ends with q empty: return False
BfsReturnFalse ==
    /\ bfs.at = "while" /\ bfs.q = <<>>
    /\ bfs' = [bfs EXCEPT !.at = "returned", !.ret = Some(FALSE)]
    /\ UNCHANGED <<req, entry, eps_arg, pc, exc, built, status_code, sol, result, calls, http>>

BfsNext == BfsIterate \/ BfsReturnFalse

\* the interpreter keeps executing the loop
BfsSpec == BfsInit /\ [][BfsNext]_vars /\ WF_vars(BfsNext)

----------------------------------------------------------------------------
(* Vocabulary of the claims, stated on the request and not with the        *)
(* validator's own helpers                                                 *)

\* the state right after validate_request has been applied by solve()
JustValidated == entry = "solve" /\ calls = <<"validate_request">>

IsDomainError(x) == x # NoExc /\ x[1].exc = "DomainError"

ReasonHas(x, part) == x # NoExc /\ part \in Range(x[1].reason)

WithObjective(r, o) == [r EXCEPT !.options.objective = o]

NodeIndex(r) == 1..Len(r.nodes)

EdgeIndex(r) == 1..Len(r.edges)

DuplicateNodeIds(r) == \E i, j \in NodeIndex(r) : i # j /\ r.nodes[i].id = r.nodes[j].id

DuplicateEdgeIds(r) == \E i, j \in EdgeIndex(r) : i # j /\ r.edges[i].id = r.edges[j].id

\* the request passes every check but those on the objective
OtherwiseValid(r) == validate_request(WithObjective(r, MaxProfit)) = NoExc

NamesASink(r, id) == \E i \in NodeIndex(r) : r.nodes[i].id = id /\ r.nodes[i].type = "sink"

NamesANode(r, id) == \E i \in NodeIndex(r) : r.nodes[i].id = id

----------------------------------------------------------------------------
(* C1: a request that passes every id, payload, process, edge and          *)
(* reachability check and asks for max_flow_to_sink with sink_node_id      *)
(* naming an existing sink is accepted by validate_request.  The code      *)
(* rejects every objective but max_profit.                                 *)

C1_Case ==
    /\ JustValidated
    /\ OtherwiseValid(req)
    /\ req.options.objective.kind = "max_flow_to_sink"
    /\ req.options.objective.sink_node_id # None
    /\ NamesASink(req, req.options.objective.sink_node_id[1])

C1_MaxFlowToSinkAccepted == C1_Case => (exc = NoExc /\ pc = "validated")

(* C2: for an otherwise valid max_flow_to_sink request validate_request    *)
(* raises a DomainError whose reason tells the cause: sink_node_id unset   *)
(* (requires objective.sink_node_id), naming no node (not found), naming   *)
(* a node that is not a sink (must point to a node of type 'sink').  The   *)
(* code answers the same "not yet implemented" reason in all three.        *)

C2_Case ==
    /\ JustValidated
    /\ OtherwiseValid(req)
    /\ req.options.objective.kind = "max_flow_to_sink"

C2_MaxFlowReasons ==
    LET obj == req.options.objective IN
    C2_Case =>
       /\ obj.sink_node_id = None =>
             IsDomainError(exc) /\ ReasonHas(exc, "requires objective.sink_node_id")
       /\ (obj.sink_node_id # None /\ ~NamesANode(req, obj.sink_node_id[1])) =>
             IsDomainError(exc) /\ ReasonHas(exc, obj.sink_node_id[1])
             /\ ReasonHas(exc, "' not found")
       /\ (obj.sink_node_id # None /\ NamesANode(req, obj.sink_node_id[1])
           /\ ~NamesASink(req, obj.sink_node_id[1])) =>
             IsDomainError(exc) /\ ReasonHas(exc, "must point to a node of type 'sink'")

(* C3: validation totality.  Whenever solve() reaches build_lp, which it   *)
(* does only for a request validate_request accepted, build_lp returns an  *)
(* LP model and raises no DomainError.                                     *)

C3_Case == entry = "solve" /\ Len(calls) >= 2 /\ calls[2] = "build_lp"

C3_ValidationTotality == C3_Case => (built # None /\ ~IsDomainError(exc))

C3_Witness == C3_Case /\ calls = <<"validate_request", "build_lp">> /\ built # None

(* C4: in solve() the validator is a gate before the compiler.  A request  *)
(* in which two nodes or two edges share an id ends in a DomainError with  *)
(* neither build_lp nor the solver invoked, and every step that invokes    *)
(* build_lp starts from the state in which validate_request has returned   *)
(* normally.                                                               *)

C4_DuplicatesStopAtValidator ==
    (entry = "solve" /\ pc # "start" /\ (DuplicateNodeIds(req) \/ DuplicateEdgeIds(req))) =>
       /\ pc = "raised" /\ IsDomainError(exc)
       /\ calls = <<"validate_request">>
       /\ built = None /\ status_code = NOT_SOLVED /\ result = None

C4_BuildOnlyAfterValidate ==
    (entry = "solve" /\ "build_lp" \in Range(calls') /\ "build_lp" \notin Range(calls)) =>
       (pc = "validated" /\ exc = NoExc /\ calls = <<"validate_request">>)

C4_ValidatorGate == []C4_DuplicatesStopAtValidator /\ [][C4_BuildOnlyAfterValidate]_vars

C4_Witness ==
    /\ entry = "solve" /\ pc = "raised" /\ calls = <<"validate_request">>
    /\ DuplicateNodeIds(req)
    /\ exc = DomainError(<<"Duplicate node IDs found.">>)

----------------------------------------------------------------------------
(* The data-model invariants of the request, stated on the request         *)

Produces(n, c) ==
    \/ n.type = "source" /\ n.source # None /\ n.source[1].commodity = c
    \/ n.type = "process" /\ n.process # None
       /\ \E k \in 1..Len(n.process[1].outputs) : n.process[1].outputs[k].commodity = c

Accepts(n, c) ==
    \/ n.type = "sink" /\ n.sink # None /\ n.sink[1].commodity = c
    \/ n.type = "process" /\ n.process # None
       /\ \E k \in 1..Len(n.process[1].inputs) : n.process[1].inputs[k].commodity = c

EdgeSound(r, e) ==
    \E i, j \in NodeIndex(r) :
       /\ r.nodes[i].id = e.u /\ r.nodes[j].id = e.v /\ e.u # e.v
       /\ r.nodes[i].type # "sink" /\ r.nodes[j].type # "source"
       /\ Produces(r.nodes[i], e.commodity) /\ Accepts(r.nodes[j], e.commodity)

UnsoundEdges(r) == {k \in EdgeIndex(r) : ~EdgeSound(r, r.edges[k])}

Min(S) == CHOOSE x \in S : \A y \in S : x <= y

NoRepeat(ios) == \A i, j \in 1..Len(ios) : ios[i].commodity = ios[j].commodity => i = j

NodeSound(n) ==
    /\ n.type = "source" => n.source # None
    /\ n.type = "sink" => n.sink # None
    /\ n.type = "process" =>
          /\ n.process # None
          /\ n.process[1].inputs # <<>> /\ n.process[1].outputs # <<>>
          /\ NoRepeat(n.process[1].inputs) /\ NoRepeat(n.process[1].outputs)

IdsAndNodesSound(r) ==
    /\ ~DuplicateNodeIds(r) /\ ~DuplicateEdgeIds(r)
    /\ \A i \in NodeIndex(r) : NodeSound(r.nodes[i])

----------------------------------------------------------------------------
(* C5 as claimed: validate_request returns normally only if every edge is  *)
(* sound (endpoints exist, no self-loop, not out of a sink, not into a     *)
(* source, commodity produced by u and accepted by v), and if any edge is  *)
(* unsound it raises a DomainError naming that edge.  The second half      *)
(* fails: the first failure wins, so an earlier check, or an earlier       *)
(* unsound edge, decides the reason.                                       *)

C5_EdgeInvariantAsClaimed ==
    JustValidated =>
       /\ exc = NoExc => UnsoundEdges(req) = {}
       /\ \A k \in UnsoundEdges(req) : IsDomainError(exc) /\ ReasonHas(exc, req.edges[k].id)

(* C5 amended: validate_request returns normally only if every edge is     *)
(* sound; if any edge is unsound it raises a DomainError, and when the     *)
(* id-uniqueness and node-level checks pass that error names the first     *)
(* unsound edge of the request.                                            *)

C5_EdgeInvariant ==
    JustValidated =>
       /\ exc = NoExc => UnsoundEdges(req) = {}
       /\ UnsoundEdges(req) # {} => IsDomainError(exc)
       /\ (UnsoundEdges(req) # {} /\ IdsAndNodesSound(req)) =>
             /\ exc[1].reason[1] = "Edge '"
             /\ exc[1].reason[2] = req.edges[Min(UnsoundEdges(req))].id

C5_Witness ==
    /\ JustValidated /\ IdsAndNodesSound(req)
    /\ UnsoundEdges(req) = {2}
    /\ ReasonHas(exc, ") does not accept it. Accepts: ")

----------------------------------------------------------------------------
(* C6: reachability.  For a request that passes all earlier checks,        *)
(* validate_request raises a DomainError if and only if some sink with     *)
(* demand_cap > 0 has no producer of its commodity among the nodes reached *)
(* by walking backwards from it over the edges of that commodity; when the *)
(* sink that fails has no producer at all the reason is the one naming the *)
(* commodity nobody produces; a sink with demand_cap = 0 never triggers    *)
(* the check.                                                              *)

ProducerIds(r, c) == {r.nodes[i].id : i \in {j \in NodeIndex(r) : Produces(r.nodes[j], c)}}

RECURSIVE BackwardClosure(_, _, _, _)
BackwardClosure(r, c, S, steps) ==
    IF steps = 0 THEN S
    ELSE BackwardClosure(r, c,
            S \cup {r.edges[k].u : k \in {j \in EdgeIndex(r) :
                                          r.edges[j].commodity = c /\ r.edges[j].v \in S}},
            steps - 1)

Starved(r, i) ==
    LET n == r.nodes[i] IN
    /\ n.type = "sink" /\ n.sink # None /\ n.sink[1].demand_cap > 0
    /\ BackwardClosure(r, n.sink[1].commodity, {n.id}, Len(r.edges))
         \cap ProducerIds(r, n.sink[1].commodity) = {}

StarvedSinks(r) == {i \in NodeIndex(r) : Starved(r, i)}

EarlierChecksPass(r) ==
    /\ IdsAndNodesSound(r)
    /\ UnsoundEdges(r) = {}
    /\ ValidateObjective(r.options.objective) = NoExc

C6_Case == JustValidated /\ EarlierChecksPass(req)

C6_Reachability ==
    C6_Case =>
       /\ Raised(exc) <=> StarvedSinks(req) # {}
       /\ Raised(exc) => IsDomainError(exc)
       /\ StarvedSinks(req) # {} =>
             LET n == req.nodes[Min(StarvedSinks(req))]
                 c == n.sink[1].commodity
             IN ProducerIds(req, c) = {} =>
                   exc = DomainError(<<"Sink '", n.id, "' demands '", c,
                                       "', but no node produces '", c, "'.">>)
       /\ (\A i \in NodeIndex(req) :
              req.nodes[i].type = "sink" => req.nodes[i].sink[1].demand_cap = 0) => exc = NoExc

C6_Witness ==
    /\ C6_Case /\ IsDomainError(exc)
    /\ ReasonHas(exc, "' can reach it via edges carrying '")
    /\ \E i \in NodeIndex(req) :
          /\ req.nodes[i].type = "sink" /\ req.nodes[i].sink[1].demand_cap = 0
          /\ i < Min(StarvedSinks(req))

----------------------------------------------------------------------------
(* Claims on extract_solution                                              *)

\* extract_solution has returned its SolveResult
Extracted == pc = "returned" /\ "extract_solution" \in Range(calls) /\ result # None

IsOptimal == Extracted /\ result[1].status = "optimal"

(* C7: status mapping.  OPTIMAL gives optimal with no message; FEASIBLE    *)
(* gives optimal with a message; INFEASIBLE gives infeasible; UNBOUNDED    *)
(* gives unbounded; MODEL_INVALID, NOT_SOLVED, ABNORMAL and any other code *)
(* give error, each with its own message, the last one carrying the code.  *)

C7_StatusMapping ==
    Extracted =>
       LET res == result[1] IN
       /\ status_code = OPTIMAL => res.status = "optimal" /\ res.message = None
       /\ status_code = FEASIBLE => res.status = "optimal" /\ res.message # None
       /\ status_code = INFEASIBLE => res.status = "infeasible"
       /\ status_code = UNBOUNDED => res.status = "unbounded"
       /\ status_code = MODEL_INVALID =>
             /\ res.status = "error"
             /\ res.message = Some(<<"Model is invalid (NaN/Inf coefficients or malformed constraints).">>)
       /\ status_code = NOT_SOLVED =>
             /\ res.status = "error"
             /\ res.message = Some(<<"Model not solved (solver did not run or stopped early).">>)
       /\ status_code = ABNORMAL =>
             /\ res.status = "error"
             /\ res.message = Some(<<"Solver ended abnormally.">>)
       /\ status_code \notin {OPTIMAL, FEASIBLE, INFEASIBLE, UNBOUNDED,
                              MODEL_INVALID, NOT_SOLVED, ABNORMAL} =>
             /\ res.status = "error"
             /\ res.message = Some(<<"Unknown solver status: ", ToString(status_code)>>)

\* a model with a negative cap has no feasible assignment and is answered infeasible
C7_Witness ==
    /\ Extracted /\ status_code = INFEASIBLE
    /\ FeasibleSet(built[1]) = {}
    /\ result[1].status = "infeasible" /\ result[1].message = Some(<<"Model is infeasible.">>)

\* FEASIBLE with a flow is reported as optimal with a message
C7_WitnessFeasible ==
    /\ Extracted /\ status_code = FEASIBLE
    /\ result[1].status = "optimal" /\ result[1].message # None
    /\ \E i \in 1..Len(result[1].edge_flows) : result[1].edge_flows[i][2] > 0

\* an error code is reported as error with its message
C7_WitnessError ==
    /\ Extracted /\ status_code = UNKNOWN_STATUS
    /\ result[1].status = "error"

(* C8: all-or-nothing.  objective_value is set exactly when the status is  *)
(* optimal, and with any other status the three maps and the list of tight *)
(* constraints are empty and the message is set.                           *)

C8_AllOrNothing ==
    Extracted =>
       LET res == result[1] IN
       /\ res.objective_value # None <=> res.status = "optimal"
       /\ res.status \in {"infeasible", "unbounded", "error"} =>
             /\ res.edge_flows = <<>> /\ res.process_runs = <<>> /\ res.sink_delivered = <<>>
             /\ res.tight_constraints = <<>>
             /\ res.message # None

\* the infeasible branch: a model with edges and a process, nothing reported
C8_Witness ==
    /\ Extracted /\ result[1].status = "infeasible"
    /\ result[1].objective_value = None /\ result[1].edge_flows = <<>>
    /\ result[1].process_runs = <<>> /\ result[1].message # None
    /\ Len(built[1].f_edge) > 0 /\ Len(built[1].r_proc) > 0

C8_WitnessUnbounded ==
    /\ Extracted /\ result[1].status = "unbounded"
    /\ result[1].objective_value = None /\ result[1].edge_flows = <<>>
    /\ Len(built[1].f_edge) > 0

C8_WitnessError ==
    /\ Extracted /\ result[1].status = "error"
    /\ result[1].objective_value = None /\ result[1].message # None
    /\ Len(built[1].f_edge) > 0

C8_WitnessOptimal ==
    /\ Extracted /\ result[1].status = "optimal" /\ result[1].objective_value # None

(* C9: on an optimal solve the list of tight constraints holds exactly one *)
(* record for each capacity construct whose slack = cap - used is <= eps   *)
(* and none for any other: used is the edge's flow for a finite edge cap,  *)
(* the flow on the source's outgoing edges of its commodity for a supply   *)
(* cap, the flow on the sink's incoming edges of its commodity for a       *)
(* demand cap, the run for a finite run cap; the record carries the        *)
(* category, the id and the slack.                                         *)

FlowOn(res, eid) == DictGet(res.edge_flows, eid, 0)

RECURSIVE FlowWhere(_, _, _, _, _)
FlowWhere(r, res, end, nid, c) ==
    IF r.edges = <<>> THEN 0
    ELSE LET e == Head(r.edges) IN
         (IF e.commodity = c /\ (IF end = "u" THEN e.u ELSE e.v) = nid THEN FlowOn(res, e.id) ELSE 0)
         + FlowWhere([r EXCEPT !.edges = Tail(r.edges)], res, end, nid, c)

ExpectedTight(r, res, eps) ==
    {TightConstraint("edge_cap:" \o e.id, e.cap[1] - FlowOn(res, e.id)) :
        e \in {x \in Range(r.edges) : x.cap # None /\ x.cap[1] - FlowOn(res, x.id) <= eps}}
    \cup
    {TightConstraint("source_supply:" \o n.id,
                     n.source[1].supply_cap - FlowWhere(r, res, "u", n.id, n.source[1].commodity)) :
        n \in {x \in Range(r.nodes) :
                 x.type = "source" /\
                 x.source[1].supply_cap - FlowWhere(r, res, "u", x.id, x.source[1].commodity) <= eps}}
    \cup
    {TightConstraint("sink_demand:" \o n.id,
                     n.sink[1].demand_cap - FlowWhere(r, res, "v", n.id, n.sink[1].commodity)) :
        n \in {x \in Range(r.nodes) :
                 x.type = "sink" /\
                 x.sink[1].demand_cap - FlowWhere(r, res, "v", x.id, x.sink[1].commodity) <= eps}}
    \cup
    {TightConstraint("process_run_cap:" \o n.id,
                     n.process[1].run_cap[1] - DictGet(res.process_runs, n.id, 0)) :
        n \in {x \in Range(r.nodes) :
                 x.type = "process" /\ x.process[1].run_cap # None /\
                 x.process[1].run_cap[1] - DictGet(res.process_runs, x.id, 0) <= eps}}

C9_TightRecords ==
    IsOptimal =>
       LET expected == ExpectedTight(req, result[1], EpsOf(eps_arg))
           tight == result[1].tight_constraints
       IN Range(tight) = expected /\ Len(tight) = Cardinality(expected)

\* records with slack 0 and with slack exactly eps are listed, a run cap among
\* them, and a construct with a larger slack is left out
C9_Witness ==
    /\ IsOptimal /\ eps_arg = Some(Grain)
    /\ {result[1].tight_constraints[i].slack :
           i \in 1..Len(result[1].tight_constraints)} = {0, Grain}
    /\ Len(built[1].edge_caps) + Len(built[1].source_supply_caps)
         + Len(built[1].sink_demand_caps) + Len(built[1].proc_run_caps)
            > Len(result[1].tight_constraints)
    /\ \E i \in 1..Len(result[1].tight_constraints) :
          result[1].tight_constraints[i].name = "process_run_cap:n2"

(* C10: with default arguments the tolerance that decides tightness is     *)
(* 1e-6, so a construct with a slack between 1e-7 and 1e-6 (Grain, or      *)
(* twice Grain) is listed.  The code hands its own default eps = 1e-7 on   *)
(* to _compute_tight_constraints.                                          *)

C10_DefaultTolerance ==
    (IsOptimal /\ eps_arg = None) =>
       Range(result[1].tight_constraints) = ExpectedTight(req, result[1], EPS_TIGHT_DEFAULT)

----------------------------------------------------------------------------
(* C11: the list of tight constraints is sorted by slack, non-decreasing,  *)
(* and records of equal slack keep the order in which they were            *)
(* enumerated: edge caps in the order of the edges, then source supplies,  *)
(* sink demands and run caps in the order of the nodes.                    *)

EnumerationTable(r) ==
    {<<"edge_cap:" \o r.edges[k].id, k>> : k \in EdgeIndex(r)}
    \cup {<<"source_supply:" \o r.nodes[i].id, Len(r.edges) + i>> : i \in NodeIndex(r)}
    \cup {<<"sink_demand:" \o r.nodes[i].id, Len(r.edges) + Len(r.nodes) + i>> : i \in NodeIndex(r)}
    \cup {<<"process_run_cap:" \o r.nodes[i].id, Len(r.edges) + 2 * Len(r.nodes) + i>> :
             i \in NodeIndex(r)}

EnumerationRank(r, name) ==
    CHOOSE k \in 1..(Len(r.edges) + 3 * Len(r.nodes)) : <<name, k>> \in EnumerationTable(r)

C11_TightOrdering ==
    IsOptimal =>
       LET tight == result[1].tight_constraints IN
       \A i, j \in 1..Len(tight) :
          i < j =>
             \/ tight[i].slack < tight[j].slack
             \/ /\ tight[i].slack = tight[j].slack
                /\ EnumerationRank(req, tight[i].name) < EnumerationRank(req, tight[j].name)

\* the sort moved a record in front of one enumerated earlier, and two records tie
C11_Witness ==
    /\ IsOptimal
    /\ LET tight == result[1].tight_constraints IN
       /\ Len(tight) >= 3
       /\ \E i, j \in 1..Len(tight) :
             i < j /\ EnumerationRank(req, tight[i].name) > EnumerationRank(req, tight[j].name)
       /\ \E i, j \in 1..Len(tight) : i < j /\ tight[i].slack = tight[j].slack

(* C12: on an optimal solve sink_delivered has one entry for every sink of *)
(* the request, equal to the sum of the returned edge flows over the edges *)
(* that end at the sink and carry its commodity (0 without such an edge),  *)
(* and no entry for a node that is not a sink.                             *)

SinkIds(r) == {r.nodes[i].id : i \in {k \in NodeIndex(r) : r.nodes[k].type = "sink"}}

C12_SinkDelivered ==
    IsOptimal =>
       LET res == result[1]
           delivered == res.sink_delivered
       IN /\ {delivered[k][1] : k \in 1..Len(delivered)} = SinkIds(req)
          /\ Len(delivered) = Cardinality(SinkIds(req))
          /\ \A i \in NodeIndex(req) :
                req.nodes[i].type = "sink" =>
                   DictGet(delivered, req.nodes[i].id, -1)
                     = FlowWhere(req, res, "v", req.nodes[i].id, req.nodes[i].sink[1].commodity)

\* a sink fed by two edges that both carry flow, next to nodes that are no sinks
C12_Witness ==
    /\ IsOptimal /\ Len(req.edges) = 2
    /\ FlowOn(result[1], "e1") > 0 /\ FlowOn(result[1], "e2") > 0
    /\ result[1].sink_delivered
         = <<<<"n3", FlowOn(result[1], "e1") + FlowOn(result[1], "e2")>>>>
    /\ req.nodes[1].type = "source" /\ req.nodes[2].type = "source"

----------------------------------------------------------------------------
(* Vocabulary for the claims about the built model.  When extract_solution *)
(* returned an optimal result, sol is an assignment the solver found to    *)
(* satisfy the constraints of the built model; with the answer FEASIBLE it *)
(* is any such assignment.                                                 *)

HasSolution == IsOptimal /\ status_code \in {OPTIMAL, FEASIBLE}

\* total of the assignment a over the first k edges that leave (end = "u") or enter nid with c
RECURSIVE FlowAt(_, _, _, _, _, _)
FlowAt(r, a, k, end, nid, c) ==
    IF k = 0 THEN 0
    ELSE LET e == r.edges[k] IN
         (IF e.commodity = c /\ (IF end = "u" THEN e.u ELSE e.v) = nid THEN a[FVar(e.id)] ELSE 0)
         + FlowAt(r, a, k - 1, end, nid, c)

Outflow(r, a, nid, c) == FlowAt(r, a, Len(r.edges), "u", nid, c)

Inflow(r, a, nid, c) == FlowAt(r, a, Len(r.edges), "v", nid, c)

\* the commodities that appear on an edge or in a node payload
RequestCommodities(r) ==
    {c \in Commodities :
        \/ \E k \in EdgeIndex(r) : r.edges[k].commodity = c
        \/ \E i \in NodeIndex(r) : Produces(r.nodes[i], c) \/ Accepts(r.nodes[i], c)}

\* quantity per run of commodity c in a list of inputs or outputs, 0 when c is not listed
PerRun(ios, c) ==
    IF \E k \in 1..Len(ios) : ios[k].commodity = c
    THEN ios[CHOOSE k \in 1..Len(ios) : ios[k].commodity = c].qty
    ELSE 0

ConstraintNames(b) == {b.constraints[k].name : k \in 1..Len(b.constraints)}

ConservationName(nid, c) == "cons[" \o nid \o "," \o c \o "]"

(* C13: every assignment that satisfies the built constraints satisfies,   *)
(* for every process node p and every commodity c of the request,          *)
(* outflow(p,c) - inflow(p,c) = run(p) * (produced(p,c) - consumed(p,c)),  *)
(* and no conservation equation is emitted for a source or a sink.         *)

C13_Conservation ==
    HasSolution =>
       \A i \in NodeIndex(req) :
          LET n == req.nodes[i] IN
          IF n.type = "process"
          THEN \A c \in RequestCommodities(req) :
                  /\ Outflow(req, sol, n.id, c) - Inflow(req, sol, n.id, c)
                       = sol[RVar(n.id)] * (PerRun(n.process[1].outputs, c)
                                            - PerRun(n.process[1].inputs, c))
                  /\ ConservationName(n.id, c) \in ConstraintNames(built[1])
          ELSE \A c \in Commodities : ConservationName(n.id, c) \notin ConstraintNames(built[1])

\* a process that runs, between a source and a sink, in an assignment that is not the optimum
C13_Witness ==
    /\ HasSolution /\ status_code = FEASIBLE /\ Len(req.nodes) = 3
    /\ req.nodes[2].type = "process" /\ sol[RVar("n2")] = Grain
    /\ sol[FVar("e1")] = Grain /\ sol[FVar("e2")] = Grain
    /\ req.nodes[3].sink[1].demand_cap = CapHi /\ req.edges[1].cap = None
    /\ req.nodes[2].process[1].run_cap = None

(* C14: every assignment that satisfies the built model has every flow and *)
(* run >= 0, flow(e) <= cap(e) for an edge with a cap, the outflow of each *)
(* source on edges of its commodity <= supply_cap, the inflow of each sink *)
(* on edges of its commodity <= demand_cap, run(p) <= run_cap(p) for a     *)
(* process with a run cap; an edge or process without a cap gets no bound  *)
(* of its own.                                                             *)

C14_CapacityFeasibility ==
    HasSolution =>
       /\ \A v \in DOMAIN sol : sol[v] >= 0
       /\ \A k \in EdgeIndex(req) :
             LET e == req.edges[k] IN
             IF e.cap # None THEN sol[FVar(e.id)] <= e.cap[1]
             ELSE ("cap_edge[" \o e.id \o "]") \notin ConstraintNames(built[1])
       /\ \A i \in NodeIndex(req) :
             LET n == req.nodes[i] IN
             /\ n.type = "source" =>
                   Outflow(req, sol, n.id, n.source[1].commodity) <= n.source[1].supply_cap
             /\ n.type = "sink" =>
                   Inflow(req, sol, n.id, n.sink[1].commodity) <= n.sink[1].demand_cap
             /\ n.type = "process" =>
                   IF n.process[1].run_cap # None
                   THEN sol[RVar(n.id)] <= n.process[1].run_cap[1]
                   ELSE ("run_cap[" \o n.id \o "]") \notin ConstraintNames(built[1])

\* an edge cap and a run cap below supply and demand, both used in full, and an edge without a cap
C14_Witness ==
    /\ HasSolution /\ Len(req.nodes) = 3 /\ req.nodes[2].type = "process"
    /\ req.edges[1].cap = Some(Grain) /\ req.edges[2].cap = None
    /\ req.nodes[2].process[1].run_cap = Some(Grain)
    /\ req.nodes[3].sink[1].demand_cap = CapHi
    /\ sol[FVar("e1")] = Grain /\ sol[RVar("n2")] = Grain /\ sol[FVar("e2")] = Grain

----------------------------------------------------------------------------
(* C15: bottleneck of a profitable chain.  For source -> sink, or source   *)
(* -> 1:1 process -> sink, with objective max_profit and a net profit > 0  *)
(* per delivered unit, the solver's optimum gives an optimal result in     *)
(* which the flow on every edge and the run of the process equal the       *)
(* smallest of supply_cap, demand_cap, the edge caps and the run cap, and  *)
(* tight_constraints lists the record of every cap that is the smallest.   *)

DirectChain(r) ==
    /\ Len(r.nodes) = 2 /\ Len(r.edges) = 1
    /\ r.nodes[1].type = "source" /\ r.nodes[2].type = "sink"
    /\ r.nodes[1].source[1].commodity = r.nodes[2].sink[1].commodity
    /\ r.edges[1].u = r.nodes[1].id /\ r.edges[1].v = r.nodes[2].id
    /\ r.edges[1].commodity = r.nodes[1].source[1].commodity

ProcessChain(r) ==
    /\ Len(r.nodes) = 3 /\ Len(r.edges) = 2
    /\ r.nodes[1].type = "source" /\ r.nodes[2].type = "process" /\ r.nodes[3].type = "sink"
    /\ r.nodes[2].process[1].inputs = <<ProcessIO(r.nodes[1].source[1].commodity, 1)>>
    /\ r.nodes[2].process[1].outputs = <<ProcessIO(r.nodes[3].sink[1].commodity, 1)>>
    /\ r.nodes[1].source[1].commodity # r.nodes[3].sink[1].commodity
    /\ r.edges[1].u = r.nodes[1].id /\ r.edges[1].v = r.nodes[2].id
    /\ r.edges[1].commodity = r.nodes[1].source[1].commodity
    /\ r.edges[2].u = r.nodes[2].id /\ r.edges[2].v = r.nodes[3].id
    /\ r.edges[2].commodity = r.nodes[3].sink[1].commodity
    /\ r.edges[1].id # r.edges[2].id

\* value of a delivered unit minus what it costs on its way
UnitProfit(r) ==
    r.nodes[Len(r.nodes)].sink[1].unit_value - r.nodes[1].source[1].unit_cost
    - SumSeq([k \in 1..Len(r.edges) |-> r.edges[k].unit_cost])
    - (IF Len(r.nodes) = 3 THEN r.nodes[2].process[1].run_cost ELSE 0)

ProfitableChain(r) ==
    /\ r.options.objective.kind = "max_profit"
    /\ DirectChain(r) \/ ProcessChain(r)
    /\ UnitProfit(r) > 0

\* <<name of the tight record, cap>> for every cap of the chain
ChainCaps(r) ==
    {<<"source_supply:" \o r.nodes[1].id, r.nodes[1].source[1].supply_cap>>,
     <<"sink_demand:" \o r.nodes[Len(r.nodes)].id, r.nodes[Len(r.nodes)].sink[1].demand_cap>>}
    \cup {<<"edge_cap:" \o r.edges[k].id, r.edges[k].cap[1]>> :
             k \in {j \in EdgeIndex(r) : r.edges[j].cap # None}}
    \cup (IF Len(r.nodes) = 3 /\ r.nodes[2].process[1].run_cap # None
          THEN {<<"process_run_cap:" \o r.nodes[2].id, r.nodes[2].process[1].run_cap[1]>>}
          ELSE {})

SmallestCap(r) == Min({p[2] : p \in ChainCaps(r)})

C15_Bottleneck ==
    (Extracted /\ status_code = OPTIMAL /\ ProfitableChain(req)) =>
       LET res == result[1]
           m == SmallestCap(req)
       IN /\ res.status = "optimal"
          /\ \A k \in EdgeIndex(req) : FlowOn(res, req.edges[k].id) = m
          /\ Len(req.nodes) = 3 => DictGet(res.process_runs, req.nodes[2].id, -1) = m
          /\ \A p \in ChainCaps(req) :
                p[2] = m => TightConstraint(p[1], 0) \in Range(res.tight_constraints)

\* Scenario B: the capped edge is the bottleneck, below supply, demand and the run cap
C15_Witness ==
    /\ Extracted /\ status_code = OPTIMAL /\ ProfitableChain(req) /\ ProcessChain(req)
    /\ req.edges[1].cap = Some(Grain) /\ SmallestCap(req) = Grain
    /\ req.nodes[3].sink[1].demand_cap = CapHi /\ req.nodes[2].process[1].run_cap = None
    /\ FlowOn(result[1], "e1") = Grain /\ FlowOn(result[1], "e2") = Grain
    /\ TightConstraint("edge_cap:e1", 0) \in Range(result[1].tight_constraints)
    /\ TightConstraint("sink_demand:n3", 0) \notin Range(result[1].tight_constraints)

----------------------------------------------------------------------------
(* C16: for objective max_profit the quantity maximised, and reported as   *)
(* objective_value, is the sum over sinks of unit_value * delivered, minus *)
(* the sum over sources of unit_cost * outflow on edges of the source's    *)
(* commodity, minus the sum over edges of unit_cost * flow, minus the sum  *)
(* over processes of run_cost * run, at the returned flows and runs.       *)

ProfitAt(r, a) ==
    SumSeq([i \in NodeIndex(r) |->
              LET n == r.nodes[i] IN
              IF n.type = "sink" THEN n.sink[1].unit_value * Inflow(r, a, n.id, n.sink[1].commodity)
              ELSE IF n.type = "source"
              THEN -(n.source[1].unit_cost * Outflow(r, a, n.id, n.source[1].commodity))
              ELSE -(n.process[1].run_cost * a[RVar(n.id)])])
    - SumSeq([k \in EdgeIndex(r) |-> r.edges[k].unit_cost * a[FVar(r.edges[k].id)]])

\* the returned flows and runs, as an assignment
Returned(res) ==
    [v \in DOMAIN sol |-> IF v[1] = "f" THEN DictGet(res.edge_flows, v[2], -1)
                          ELSE DictGet(res.process_runs, v[2], -1)]

C16_MaxProfitObjective ==
    (IsOptimal /\ req.options.objective.kind = "max_profit") =>
       /\ result[1].objective_value = Some(ProfitAt(req, Returned(result[1])))
       /\ \A a \in [DOMAIN sol -> Vals] : Eval(built[1].objective[1], a) = ProfitAt(req, a)
       /\ status_code = OPTIMAL =>
             \A a \in FeasibleSet(built[1]) : ProfitAt(req, a) <= ProfitAt(req, Returned(result[1]))

\* revenue 4 a unit against costs of 1 at the source, on an edge and in the process
C16_Witness ==
    /\ IsOptimal /\ status_code = OPTIMAL /\ req \in RequestsCosted
    /\ req.nodes[3].sink[1].unit_value = 4 /\ req.nodes[3].sink[1].demand_cap = Grain
    /\ FlowOn(result[1], "e2") = Grain
    /\ result[1].objective_value = Some(4 * Grain - 3 * Grain)

----------------------------------------------------------------------------
(* C17: for objective max_flow_to_sink with sink_node_id naming a sink the *)
(* quantity maximised is the total flow on that sink's incoming edges of   *)
(* its commodity; no unit_value, unit_cost or run_cost enters it, so the   *)
(* optimal delivered quantity is the same whatever these are.              *)

MaxFlowToASink(r) ==
    /\ r.options.objective.kind = "max_flow_to_sink"
    /\ r.options.objective.sink_node_id # None
    /\ \E i \in NodeIndex(r) :
          r.nodes[i].id = r.options.objective.sink_node_id[1] /\ r.nodes[i].type = "sink"

TargetSink(r) ==
    r.nodes[CHOOSE i \in NodeIndex(r) : r.nodes[i].id = r.options.objective.sink_node_id[1]]

DeliveredAt(r, a) == Inflow(r, a, TargetSink(r).id, TargetSink(r).sink[1].commodity)

\* the request with every unit_value, unit_cost and run_cost set to k
Repriced(r, k) ==
    [r EXCEPT
       !.nodes = [i \in NodeIndex(r) |->
                    LET n == r.nodes[i] IN
                    IF n.type = "source"
                    THEN [n EXCEPT !.source = Some([n.source[1] EXCEPT !.unit_cost = k])]
                    ELSE IF n.type = "sink"
                    THEN [n EXCEPT !.sink = Some([n.sink[1] EXCEPT !.unit_value = k])]
                    ELSE [n EXCEPT !.process = Some([n.process[1] EXCEPT !.run_cost = k])]],
       !.edges = [j \in EdgeIndex(r) |-> [r.edges[j] EXCEPT !.unit_cost = k]]]

Prices == {0, 1, 3}

\* what an optimum of the model built for r delivers to the target sink
OptimalDelivered(r) ==
    LET corder == CHOOSE o \in IterationOrders(CommoditiesOf(r)) : TRUE
        b == build_lp(r, corder, Some("GLOP")).value[1]
    IN {DeliveredAt(r, a) : a \in OptimalSet(b)}

C17_MaxFlowObjective ==
    (IsOptimal /\ MaxFlowToASink(req)) =>
       /\ \A a \in [DOMAIN sol -> Vals] : Eval(built[1].objective[1], a) = DeliveredAt(req, a)
       /\ status_code = OPTIMAL =>
             LET delivered == DictGet(result[1].sink_delivered, TargetSink(req).id, -1) IN
             /\ delivered = DeliveredAt(req, sol)
             /\ \A a \in FeasibleSet(built[1]) : DeliveredAt(req, a) <= delivered
             /\ \A k \in Prices : OptimalDelivered(Repriced(req, k)) = {delivered}

\* a sink of value 0 behind costly supply still receives everything the caps allow
C17_Witness ==
    /\ IsOptimal /\ status_code = OPTIMAL /\ MaxFlowToASink(req) /\ req \in RequestsSimple
    /\ req.nodes[2].sink[1].unit_value = 0 /\ req.nodes[1].source[1].unit_cost = 1
    /\ req.nodes[1].source[1].supply_cap = CapHi /\ req.nodes[2].sink[1].demand_cap = CapHi
    /\ req.edges[1].cap = None
    /\ result[1].sink_delivered = <<<<"n2", CapHi>>>>

----------------------------------------------------------------------------
(* C18: build_lp called directly, without the validator, on a request with *)
(* objective max_flow_to_sink and no sink_node_id raises a DomainError     *)
(* saying that the objective requires objective.sink_node_id, and returns  *)
(* no model.                                                               *)

BuiltDirectly == entry \in {"solve_lp", "extract_solution"} /\ Len(calls) >= 1 /\ calls[1] = "build_lp"

C18_MissingSinkIdRaises ==
    (BuiltDirectly /\ req.options.objective.kind = "max_flow_to_sink"
                   /\ req.options.objective.sink_node_id = None) =>
       /\ pc = "raised" /\ calls = <<"build_lp">>
       /\ IsDomainError(exc) /\ ReasonHas(exc, "requires objective.sink_node_id")
       /\ built = None /\ result = None

C18_Witness ==
    /\ BuiltDirectly /\ pc = "raised" /\ built = None
    /\ req.options.objective = SolveObjective("max_flow_to_sink", None)
    /\ Len(req.edges) = 1 /\ validate_request(WithObjective(req, MaxProfit)) = NoExc
    /\ exc = DomainError(<<"objective.kind='max_flow_to_sink' ",
                           "requires objective.sink_node_id", ".">>)

----------------------------------------------------------------------------
(* C19: the compiler repeats the validator's objective-level checks:       *)
(* build_lp raises a DomainError, and returns no model, when the objective *)
(* is max_flow_to_sink and sink_node_id is unset, names no node of the     *)
(* request or names a node that is not a sink, and when the kind is        *)
(* neither max_profit nor max_flow_to_sink.  The code checks only for an   *)
(* unset sink_node_id.                                                     *)

BuildLpCalled == "build_lp" \in Range(calls)

C19_CompilerRepeatsChecks ==
    (BuildLpCalled /\ req.options.objective.kind # "max_profit"
                   /\ ~MaxFlowToASink(req)) =>
       /\ IsDomainError(exc) /\ pc = "raised"
       /\ built = None

(* C20: topology safety net.  For a request that reaches build_lp with an  *)
(* edge that ends at a source or starts at a sink, every assignment that   *)
(* satisfies the built model has inflow 0 into every source and outflow 0  *)
(* out of every sink, for every commodity, so every such edge carries 0 in *)
(* a returned solution; the other edges are not held back by this.         *)

IsType(r, nid, type) == \E i \in NodeIndex(r) : r.nodes[i].id = nid /\ r.nodes[i].type = type

BackwardEdges(r) ==
    {k \in EdgeIndex(r) : IsType(r, r.edges[k].v, "source") \/ IsType(r, r.edges[k].u, "sink")}

C20_TopologySafetyNet ==
    HasSolution =>
       /\ \A i \in NodeIndex(req) : \A c \in Commodities :
             /\ req.nodes[i].type = "source" => Inflow(req, sol, req.nodes[i].id, c) = 0
             /\ req.nodes[i].type = "sink" => Outflow(req, sol, req.nodes[i].id, c) = 0
       /\ \A k \in BackwardEdges(req) :
             sol[FVar(req.edges[k].id)] = 0 /\ FlowOn(result[1], req.edges[k].id) = 0

\* source -> sink and sink -> source side by side: the first edge flows, the second is held at 0
C20_Witness ==
    /\ HasSolution /\ entry = "solve_lp" /\ Len(req.edges) = 2
    /\ BackwardEdges(req) = {2}
    /\ req.edges[2].u = "n2" /\ req.edges[2].v = "n1"
    /\ FlowOn(result[1], "e1") = CapHi /\ FlowOn(result[1], "e2") = 0

(* C21: error surface.  A JSON body that violates the schema (a negative   *)
(* cap, a missing payload, a qty of 0, an unknown objective kind) is       *)
(* answered with 422 and never reaches validate_request; a schema-valid    *)
(* request that the validator rejects is answered with 400 and the body    *)
(* {"detail": reason}; every solver outcome, unbounded and error included, *)
(* is answered with 200 and the SolveResult whose status reports it.  No   *)
(* other kind of exception leaves the endpoint.                            *)

OverHttp == entry = "http"

Responded == OverHttp /\ pc = "responded" /\ http # None

\* the body keeps every bound and shape the schema declares
WellFormedBody(r) ==
    /\ \A i \in NodeIndex(r) :
          LET n == r.nodes[i] IN
          /\ n.id # ""
          /\ <<n.source # None, n.process # None, n.sink # None>>
                = <<n.type = "source", n.type = "process", n.type = "sink">>
          /\ n.source # None => n.source[1].supply_cap >= 0 /\ n.source[1].commodity # ""
          /\ n.sink # None => n.sink[1].demand_cap >= 0 /\ n.sink[1].commodity # ""
          /\ n.process # None =>
                /\ n.process[1].run_cap \in {None} \cup {Some(x) : x \in 0..CapHi}
                /\ \A io \in Range(n.process[1].inputs) \cup Range(n.process[1].outputs) :
                      io.qty >= 1 /\ io.commodity # ""
    /\ \A k \in EdgeIndex(r) :
          /\ r.edges[k].cap \in {None} \cup {Some(x) : x \in 0..CapHi}
          /\ "" \notin {r.edges[k].id, r.edges[k].u, r.edges[k].v, r.edges[k].commodity}
    /\ r.options.objective.kind \in {"max_profit", "max_flow_to_sink"}
    /\ r.options.mode = "lp"

StatusOfCode(code) ==
    CASE code \in {OPTIMAL, FEASIBLE} -> "optimal"
      [] code = INFEASIBLE -> "infeasible"
      [] code = UNBOUNDED -> "unbounded"
      [] OTHER -> "error"

C21_ErrorSurface ==
    OverHttp =>
       /\ pc # "responded" => http = None
       /\ ~WellFormedBody(req) =>
             /\ calls = <<>> /\ exc = NoExc /\ pc \in {"start", "responded"}
             /\ pc = "responded" => http = Some(JSONResponse(422, http[1].content))
       /\ pc = "raised" => IsDomainError(exc) /\ calls = <<"validate_request">>
       /\ (pc = "responded" /\ WellFormedBody(req)) =>
             \/ /\ calls = <<"validate_request">> /\ IsDomainError(exc)
                /\ http = Some(JSONResponse(400, [detail |-> exc[1].reason]))
             \/ /\ calls = <<"validate_request", "build_lp", "extract_solution">>
                /\ exc = NoExc /\ result # None
                /\ http = Some(JSONResponse(200, result[1]))
                /\ result[1].status = StatusOfCode(status_code)

\* a body with a negative supply_cap was answered with 422 before any validation
C21_Witness ==
    /\ Responded /\ http[1].status_code = 422 /\ calls = <<>>
    /\ req.nodes[1].source # None /\ req.nodes[1].source[1].supply_cap < 0
    /\ req.nodes[2].sink # None /\ req.nodes[2].sink[1].demand_cap > 0
    /\ req.options.objective = MaxProfit

\* a rejected request was answered with 400 and the validator's reason
C21_Witness400 ==
    /\ Responded /\ WellFormedBody(req) /\ http[1].status_code = 400
    /\ http[1].content.detail = exc[1].reason /\ req.edges = <<>>

\* an unbounded answer of the solver was answered with 200 and status unbounded
C21_Witness200 ==
    /\ Responded /\ http[1].status_code = 200 /\ status_code = UNBOUNDED
    /\ http[1].content.status = "unbounded"

(* C23: validator check order.  When a request violates checks of more   *)
(* than one group, the DomainError comes from the lowest-numbered violated *)
(* group: (1) id uniqueness, (2) payload shape of every node, (3) process  *)
(* inputs/outputs, (4) edges, (5) objective, (6) reachability; a duplicate *)
(* node id is reported before a duplicate edge id.  The code checks shape  *)
(* and process lists node by node, so an empty input list on the first     *)
(* node is reported before a missing payload on the second.                *)

MissingPayload(n) ==
    \/ n.type = "source" /\ n.source = None
    \/ n.type = "sink" /\ n.sink = None
    \/ n.type = "process" /\ n.process = None

ViolatedGroups(r) ==
    {g \in 1..6 :
        \/ g = 1 /\ (DuplicateNodeIds(r) \/ DuplicateEdgeIds(r))
        \/ g = 2 /\ \E i \in NodeIndex(r) : MissingPayload(r.nodes[i])
        \/ g = 3 /\ \E i \in NodeIndex(r) : ~MissingPayload(r.nodes[i]) /\ ~NodeSound(r.nodes[i])
        \/ g = 4 /\ UnsoundEdges(r) # {}
        \/ g = 5 /\ ValidateObjective(r.options.objective) # NoExc
        \/ g = 6 /\ StarvedSinks(r) # {}}

\* the group a reason belongs to, read off its wording
GroupOfReason(reason) ==
    CASE reason[1] \in {"Duplicate node IDs found.", "Duplicate edge IDs found."} -> 1
      [] reason[1] \in {"Source node '", "Sink node '", "Process node '"}
         /\ reason[3] \in {"' must include 'source' spec.", "' must include 'sink' spec.",
                           "' must include 'process' spec."} -> 2
      [] reason[1] = "Process node '"
         /\ reason[3] \notin {"' must include 'process' spec."} -> 3
      [] reason[1] = "Edge '" -> 4
      [] reason[1] = "Objective '" -> 5
      [] reason[1] = "Sink '" -> 6
      [] OTHER -> 0

SeveralGroupsViolated == JustValidated /\ Cardinality(ViolatedGroups(req)) >= 2

C23_CheckOrder ==
    SeveralGroupsViolated =>
       /\ IsDomainError(exc)
       /\ GroupOfReason(exc[1].reason) = Min(ViolatedGroups(req))
       /\ DuplicateNodeIds(req) => exc = DomainError(<<"Duplicate node IDs found.">>)

(* C24 as claimed: for every process node whose inputs list is empty,     *)
(* whose outputs list is empty, or that repeats a commodity within inputs  *)
(* or within outputs, validate_request raises a DomainError naming that    *)
(* node.  This fails when the first failure is another one: a duplicate    *)
(* id, or an earlier node of the list.                                     *)

RepeatedIn(ios) ==
    {c \in Commodities : \E i, j \in 1..Len(ios) :
        i < j /\ ios[i].commodity = c /\ ios[j].commodity = c}

FaultyProcess(n) ==
    /\ n.type = "process" /\ n.process # None
    /\ \/ n.process[1].inputs = <<>> \/ n.process[1].outputs = <<>>
       \/ RepeatedIn(n.process[1].inputs) # {} \/ RepeatedIn(n.process[1].outputs) # {}

FaultyProcesses(r) == {i \in NodeIndex(r) : FaultyProcess(r.nodes[i])}

C24_ProcessChecksAsClaimed ==
    JustValidated =>
       \A i \in FaultyProcesses(req) : IsDomainError(exc) /\ ReasonHas(exc, req.nodes[i].id)

(* C24 amended: a request with such a process node is always rejected with *)
(* a DomainError; when the node and edge ids are unique and no earlier     *)
(* node fails a node-level check, the error names the first such node and  *)
(* tells its first failing check in the order empty inputs, empty outputs, *)
(* repeats in inputs, repeats in outputs, the repeat errors listing        *)
(* exactly the repeated commodities of that list in sorted order; a        *)
(* commodity listed once in inputs and once in outputs is no repeat and    *)
(* the request is accepted when nothing else is wrong.                     *)

ListText(S) ==
    CASE S = {"a"} -> "['a']"
      [] S = {"b"} -> "['b']"
      [] S = {"a", "b"} -> "['a', 'b']"
      [] OTHER -> "[]"

RepeatError(id, field, ios) ==
    DomainError(<<"Process node '", id, "' has duplicate commodities in process.", field, ": ",
                  ListText(RepeatedIn(ios)), ". Use a single entry per commodity.">>)

ProcessError(n) ==
    LET p == n.process[1] IN
    CASE p.inputs = <<>> ->
            DomainError(<<"Process node '", n.id, "' must have at least one input.">>)
      [] p.inputs # <<>> /\ p.outputs = <<>> ->
            DomainError(<<"Process node '", n.id, "' must have at least one output.">>)
      [] p.inputs # <<>> /\ p.outputs # <<>> /\ RepeatedIn(p.inputs) # {} ->
            RepeatError(n.id, "inputs", p.inputs)
      [] OTHER -> RepeatError(n.id, "outputs", p.outputs)

ListedOnBothSides(n) ==
    /\ n.type = "process" /\ n.process # None
    /\ \E c \in Commodities : Accepts(n, c) /\ Produces(n, c)

C24_ProcessChecks ==
    JustValidated =>
       /\ FaultyProcesses(req) # {} => IsDomainError(exc)
       /\ ( /\ FaultyProcesses(req) # {}
            /\ ~DuplicateNodeIds(req) /\ ~DuplicateEdgeIds(req)
            /\ \A j \in 1..(Min(FaultyProcesses(req)) - 1) : NodeSound(req.nodes[j]) )
          => exc = ProcessError(req.nodes[Min(FaultyProcesses(req))])
       /\ ( /\ \E i \in NodeIndex(req) : ListedOnBothSides(req.nodes[i])
            /\ EarlierChecksPass(req) /\ StarvedSinks(req) = {} )
          => exc = NoExc

\* inputs b, a, b, a on the second node: both commodities are reported, sorted
C24_Witness ==
    /\ JustValidated /\ req.nodes[1].type = "source"
    /\ FaultyProcesses(req) = {2}
    /\ MapCommodity(req.nodes[2].process[1].inputs) = <<"b", "a", "b", "a">>
    /\ MapCommodity(req.nodes[2].process[1].outputs) = <<"a", "b", "a">>
    /\ ReasonHas(exc, "['a', 'b']") /\ ReasonHas(exc, "inputs") /\ ReasonHas(exc, "n2")

\* a listed once in inputs and once in outputs of both processes: accepted
C24_WitnessAccepted ==
    /\ JustValidated /\ exc = NoExc
    /\ \A i \in NodeIndex(req) : ListedOnBothSides(req.nodes[i])

(* C25: deterministic constraint generation.  build_lp visits the set of  *)
(* all commodities in sorted order, so the sequence of constraints added   *)
(* to the model (names and order) is a function of the request alone.  The *)
(* code iterates the set as Python yields it, which for strings depends on *)
(* the hash seed of the process, so the order is not fixed by the request. *)

NamesInOrder(b) == [k \in 1..Len(b.constraints) |-> b.constraints[k].name]

BuiltInSortedOrder(r) == build_lp(r, sorted(CommoditiesOf(r)), Some("GLOP")).value[1]

C25_SortedCommodityOrder ==
    built # None => NamesInOrder(built[1]) = NamesInOrder(BuiltInSortedOrder(req))

(* C26: for a request that passes the id, payload, process, edge and      *)
(* objective checks, the reachability check accepts exactly when every     *)
(* sink with demand_cap > 0 has at least one incoming edge; the backward   *)
(* walk decides among the direct predecessors of the sink, and whether     *)
(* such a predecessor is itself supplied plays no part.                    *)

DemandingSinks(r) ==
    {i \in NodeIndex(r) : r.nodes[i].type = "sink" /\ r.nodes[i].sink # None
                          /\ r.nodes[i].sink[1].demand_cap > 0}

IncomingEdges(r, nid) == {k \in EdgeIndex(r) : r.edges[k].v = nid}

Supplied(r, nid) == IncomingEdges(r, nid) # {} \/ IsType(r, nid, "source")

C26_IncomingEdgeDecides ==
    (JustValidated /\ EarlierChecksPass(req)) =>
       /\ exc = NoExc <=> \A i \in DemandingSinks(req) : IncomingEdges(req, req.nodes[i].id) # {}
       /\ \A i \in DemandingSinks(req) :
             LET n == req.nodes[i]
                 c == n.sink[1].commodity
                 producers == ProducersByComm(req.nodes, c)
             IN _reverse_reachable_from_any_producer(req.edges, c, producers, n.id)
                   <=> Range(Radj(req.edges, c, n.id)) \cap producers # {}

\* a process that nothing supplies feeds the sink, and the request is accepted
C26_Witness ==
    /\ JustValidated /\ EarlierChecksPass(req) /\ exc = NoExc
    /\ DemandingSinks(req) = {2}
    /\ IncomingEdges(req, "n2") = {1} /\ req.edges[1].u = "n1"
    /\ req.nodes[1].type = "process" /\ ~Supplied(req, "n1")

(* C27: _reverse_reachable_from_any_producer terminates on every finite   *)
(* graph, cycles and self-loops among the nodes included; each node id is  *)
(* enqueued at most once; it returns True exactly when some producer is in *)
(* the set of nodes from which the sink can be reached (the sink itself    *)
(* included).                                                              *)

BfsReturned == bfs.at = "returned"

BackwardReachable ==
    BackwardClosure([edges |-> bfs.edges], bfs.comm, {bfs.sink_id}, Cardinality(BfsNodes))

OnCycle(id) ==
    \E k \in 1..Len(bfs.edges) :
       /\ bfs.edges[k].u = id /\ bfs.edges[k].v # id
       /\ \E j \in 1..Len(bfs.edges) : bfs.edges[j].u = bfs.edges[k].v /\ bfs.edges[j].v = id

C27_BfsTerminates ==
    /\ <>BfsReturned
    /\ [](bfs.at # "idle" => \A id \in BfsNodes : bfs.enqueued[id] <= 1)
    /\ [](BfsReturned => bfs.ret = Some(BackwardReachable \cap bfs.producers # {}))

\* n1 and n2 feed each other and n3; nobody produces: the walk visits all three and returns False
C27_Witness ==
    /\ BfsReturned /\ bfs.ret = Some(FALSE) /\ bfs.producers = {}
    /\ OnCycle("n1") /\ OnCycle("n2")
    /\ bfs.seen = BfsNodes /\ \A id \in BfsNodes : bfs.enqueued[id] = 1

(* C28: the model built for a schema-valid request with objective        *)
(* max_profit is always feasible: the all-zero assignment satisfies every  *)
(* constraint.  Hence a validated request never gets status infeasible,    *)
(* and the objective value of an optimum is never negative.                *)

ZeroAssignment(b) == [v \in LpVars(b) |-> 0]

BuiltForMaxProfit ==
    /\ built # None /\ WellFormedBody(req)
    /\ req.options.objective.kind = "max_profit"

C28_AlwaysFeasible ==
    BuiltForMaxProfit =>
       /\ Feasible(built[1], ZeroAssignment(built[1]))
       /\ status_code # INFEASIBLE
       /\ result # None => result[1].status # "infeasible"
       /\ (IsOptimal /\ status_code = OPTIMAL) =>
             /\ result[1].objective_value # None
             /\ result[1].objective_value[1] >= 0

\* a validated chain with caps and equations, solved to an optimum with a profit
C28_Witness ==
    /\ BuiltForMaxProfit /\ entry = "solve" /\ IsOptimal /\ status_code = OPTIMAL
    /\ \E i \in NodeIndex(req) : req.nodes[i].type = "process"
    /\ \E k \in 1..Len(built[1].constraints) : built[1].constraints[k].sense = "=="
    /\ \E k \in 1..Len(built[1].constraints) :
          built[1].constraints[k].sense = "<=" /\ built[1].constraints[k].bound > 0
    /\ result[1].objective_value[1] > 0

(* C29 as claimed: a process node that lists a commodity with produced #  *)
(* consumed and has no edge carrying that commodity is forced to run = 0   *)
(* in every feasible assignment, and all flow on its other edges is forced *)
(* to 0 as well.  The second half fails for a commodity with edges both    *)
(* into and out of the process: with run = 0 the equation only says        *)
(* outflow = inflow, so the commodity passes through.                      *)

EdgesAt(r, nid, c) ==
    {k \in EdgeIndex(r) : r.edges[k].commodity = c /\ nid \in {r.edges[k].u, r.edges[k].v}}

NetPerRun(n, c) == PerRun(n.process[1].outputs, c) - PerRun(n.process[1].inputs, c)

\* the process lists c with a net effect per run and has no edge carrying c
StarvedOf(r, i, c) ==
    LET n == r.nodes[i] IN
    /\ n.type = "process" /\ n.process # None
    /\ Produces(n, c) \/ Accepts(n, c)
    /\ NetPerRun(n, c) # 0
    /\ EdgesAt(r, n.id, c) = {}

StarvedProcesses(r) == {i \in NodeIndex(r) : \E c \in Commodities : StarvedOf(r, i, c)}

C29_StarvedProcessAsClaimed ==
    HasSolution =>
       \A i \in StarvedProcesses(req) :
          /\ sol[RVar(req.nodes[i].id)] = 0
          /\ \A c \in Commodities : \A k \in EdgesAt(req, req.nodes[i].id, c) :
                sol[FVar(req.edges[k].id)] = 0

(* C29 amended: such a process is forced to run = 0 in every feasible      *)
(* assignment; consequently its outflow equals its inflow for every        *)
(* commodity, so the edges of a commodity that it has on one side only     *)
(* (only incoming or only outgoing) carry 0, while a commodity with edges  *)
(* both into and out of the process may pass through unchanged.            *)

OneSided(r, nid, c) ==
    \/ \A k \in EdgesAt(r, nid, c) : r.edges[k].v = nid /\ r.edges[k].u # nid
    \/ \A k \in EdgesAt(r, nid, c) : r.edges[k].u = nid /\ r.edges[k].v # nid

C29_StarvedProcess ==
    HasSolution =>
       \A i \in StarvedProcesses(req) :
          LET nid == req.nodes[i].id IN
          /\ sol[RVar(nid)] = 0 /\ DictGet(result[1].process_runs, nid, -1) = 0
          /\ \A c \in Commodities :
                /\ Outflow(req, sol, nid, c) = Inflow(req, sol, nid, c)
                /\ OneSided(req, nid, c) =>
                      \A k \in EdgesAt(req, nid, c) : sol[FVar(req.edges[k].id)] = 0

\* a -> b process with no edge for a: its edge to the sink is held at 0
C29_Witness ==
    /\ HasSolution /\ entry = "solve" /\ req \in RequestsStarvedProcess
    /\ StarvedProcesses(req) = {2} /\ StarvedOf(req, 2, "a")
    /\ EdgesAt(req, "n2", "b") = {1} /\ req.edges[1].v = "n3"
    /\ sol[RVar("n2")] = 0 /\ sol[FVar("e2")] = 0

\* b listed on both sides: the starved process does not run, yet b passes through it
C29_WitnessPassThrough ==
    /\ HasSolution /\ entry = "solve" /\ StarvedProcesses(req) = {2}
    /\ sol[RVar("n2")] = 0
    /\ EdgesAt(req, "n2", "b") = {1, 2}
    /\ sol[FVar("e1")] = CapHi /\ sol[FVar("e2")] = CapHi

(* C30: a capacity construct whose cap is 0 is reported tight in every    *)
(* optimal result: an edge with cap 0 gives edge_cap:<id>, a source with   *)
(* supply_cap 0 gives source_supply:<id>, a sink with demand_cap 0 gives   *)
(* sink_demand:<id>, a process with run_cap 0 gives process_run_cap:<id>,  *)
(* each with slack 0.                                                      *)

ZeroCapRecords(r) ==
    {TightConstraint("edge_cap:" \o r.edges[k].id, 0) :
        k \in {j \in EdgeIndex(r) : r.edges[j].cap = Some(0)}}
    \cup {TightConstraint("source_supply:" \o r.nodes[i].id, 0) :
        i \in {j \in NodeIndex(r) : r.nodes[j].source # None /\ r.nodes[j].type = "source"
                                    /\ r.nodes[j].source[1].supply_cap = 0}}
    \cup {TightConstraint("sink_demand:" \o r.nodes[i].id, 0) :
        i \in {j \in NodeIndex(r) : r.nodes[j].sink # None /\ r.nodes[j].type = "sink"
                                    /\ r.nodes[j].sink[1].demand_cap = 0}}
    \cup {TightConstraint("process_run_cap:" \o r.nodes[i].id, 0) :
        i \in {j \in NodeIndex(r) : r.nodes[j].process # None /\ r.nodes[j].type = "process"
                                    /\ r.nodes[j].process[1].run_cap = Some(0)}}

C30_ZeroCapIsTight ==
    IsOptimal => ZeroCapRecords(req) \subseteq Range(result[1].tight_constraints)

\* a validated chain with edge cap 0, run_cap 0 and demand_cap 0: all three are listed
C30_Witness ==
    /\ IsOptimal /\ entry = "solve" /\ Len(req.nodes) = 3
    /\ Cardinality(ZeroCapRecords(req)) = 3
    /\ ZeroCapRecords(req) \subseteq Range(result[1].tight_constraints)
    /\ TightConstraint("sink_demand:n3", 0) \in ZeroCapRecords(req)
    /\ TightConstraint("edge_cap:e1", 0) \in ZeroCapRecords(req)
    /\ TightConstraint("process_run_cap:n2", 0) \in ZeroCapRecords(req)

\* a source with supply_cap 0 is listed as well
C30_WitnessSupply ==
    /\ IsOptimal /\ TightConstraint("source_supply:n1", 0) \in ZeroCapRecords(req)
    /\ TightConstraint("source_supply:n1", 0) \in Range(result[1].tight_constraints)

====
